---- MODULE Spec2Model ----
(***************************************************************************)
(* A model of the task pipeline of the Todoist DeepSync plugin:            *)
(*   buildTaskTree      (taskTree.ts)    flat tasks -> ordered forest       *)
(*   applyFilter        (todoistApi.ts)  date filters today/overdue/...     *)
(*   parseTodoistQuery  (parseQuery.ts)  block content -> query             *)
(*   render             (main.ts)        query + default -> fetchTasks(...) *)
(*                                                                         *)
(* Strings are sequences of tokens (a keyword, a word, a separator, one    *)
(* white-space character, one quote); the regular expressions and string   *)
(* methods of the code are operators over those sequences.  An optional    *)
(* value is <<>> (undefined / null) or <<v>>.                              *)
(***************************************************************************)
EXTENDS Integers, Sequences, FiniteSets, TLC

VARIABLES
    pc,         \* position of the run: which operation has been applied
    tasks,      \* the TodoistTask[] handed to buildTaskTree / applyFilter
    roots,      \* buildTaskTree: the returned roots (ids, in order)
    nodes,      \* buildTaskTree: id -> the children (ids) of that id's node
    filter,     \* applyFilter: the filter expression
    now,        \* the local clock read by new Date()
    filtered,   \* applyFilter: the returned tasks
    source,     \* the content of the todoist block
    query,      \* parseTodoistQuery: the returned TodoistQuery
    settings,   \* plugin.settings (apiToken, defaultProjectOrFilter, ...)
    fetchCalls, \* the options of every fetchTasks call render has made
    container,  \* what the block's containerEl shows: a message or the header
    items,      \* the items of the Sync API's response
    inflight,   \* the requests to the Sync API that await their response
    lines,      \* the task lines of the block: task id, checkbox, depth
    toggleCalls,\* the arguments of every onToggle call
    notices,    \* the text of the Notice shown last
    stack,      \* sortChildren: the calls in progress (node, next child)
    visits,     \* sortChildren: the nodes it has been called on, in order
    cursor,     \* applyFilter: the task and the part being evaluated
    shown,      \* the fetchTasks call whose outcome the container shows
    awaiting,   \* how many onChange handlers await saveSettings
    refreshIntervalId, \* plugin.refreshIntervalId, NoTimer for null
    timers,     \* the interval timers that are active
    blockRenderers,    \* plugin.blockRenderers
    block       \* the block renderer: none, loaded or unloaded

\* what only the plugin with its block touches
ui == <<inflight, lines, toggleCalls, notices>>

\* what only the step by step runs of sortChildren and applyFilter touch
steps == <<stack, visits, cursor>>

\* what only the life cycle of the plugin and of its block touches
life == <<awaiting, refreshIntervalId, timers, blockRenderers, block>>

host == <<shown, life>>

vars == <<pc, tasks, roots, nodes, filter, now, filtered, source, query,
          settings, fetchCalls, container, items, ui, steps, host>>

(***************************************************************************)
(* Bounds of the model.                                                    *)
(***************************************************************************)
MaxTasks == 4          \* longest task collection given to buildTaskTree

(***************************************************************************)
(* Generic helpers.                                                        *)
(***************************************************************************)
Range(s) == {s[i] : i \in 1..Len(s)}

RECURSIVE Occurrences(_, _)
Occurrences(s, x) ==
    IF s = <<>> THEN 0
    ELSE (IF Head(s) = x THEN 1 ELSE 0) + Occurrences(Tail(s), x)

(***************************************************************************)
(* TodoistTask (types.ts).  Ids are positive numbers; parent_id null is    *)
(* NoId.  due is modelled further below.                                   *)
(***************************************************************************)
NoId == 0
NoDue == <<>>

Task(id, order, parent, due) ==
    [id |-> id, order |-> order, parent_id |-> parent, due |-> due]

(***************************************************************************)
(* buildTaskTree (taskTree.ts).                                            *)
(***************************************************************************)
\* for (const t of tasks) byId.set(t.id, t): the last task with an id wins
ById(ts) ==
    [i \in {ts[k].id : k \in 1..Len(ts)} |->
        ts[CHOOSE k \in 1..Len(ts) :
              /\ ts[k].id = i
              /\ \A m \in 1..Len(ts) : ts[m].id = i => m <= k]]

\* for (const t of tasks) nodes.set(t.id, { task: t, children: [] })
EmptyNodes(ts) == [i \in {ts[k].id : k \in 1..Len(ts)} |-> <<>>]

\* if (!parentId || !nodes.has(parentId))
IsRoot(t, nodeIds) == t.parent_id = NoId \/ t.parent_id \notin nodeIds

\* one turn of the loop of lines 17-26: roots.push(node) or
\* parent.children.push(node)
AttachTaskDropOrphan(acc, t) ==
    IF t.parent_id = NoId
    THEN [acc EXCEPT !.roots = Append(@, t.id)]
    ELSE IF t.parent_id \notin DOMAIN acc.nodes
         THEN acc
         ELSE [acc EXCEPT !.nodes[t.parent_id] = Append(@, t.id)]

AttachTaskTwice(acc, t) ==
    IF IsRoot(t, DOMAIN acc.nodes)
    THEN [acc EXCEPT !.roots = Append(@, t.id)]
    ELSE [acc EXCEPT !.nodes[t.parent_id] = Append(Append(@, t.id), t.id)]

\* roots.push(node) without the else: a task with a parent is a root too
AttachTaskAlsoRoot(acc, t) ==
    IF IsRoot(t, DOMAIN acc.nodes)
    THEN [acc EXCEPT !.roots = Append(@, t.id)]
    ELSE [acc EXCEPT !.roots = Append(@, t.id),
                     !.nodes[t.parent_id] = Append(@, t.id)]

AttachTask(acc, t) ==
    IF IsRoot(t, DOMAIN acc.nodes)
    THEN [acc EXCEPT !.roots = Append(@, t.id)]
    ELSE [acc EXCEPT !.nodes[t.parent_id] = Append(@, t.id)]

RECURSIVE AttachAll(_, _)
AttachAll(acc, ts) ==
    IF ts = <<>> THEN acc
    ELSE AttachAll(AttachTask(acc, Head(ts)), Tail(ts))

\* Array.prototype.sort with (a, b) => a.task.order - b.task.order: a stable
\* sort (ECMAScript 2019), here an insertion sort that puts each element
\* after the elements that do not compare greater.
RECURSIVE InsertByOrder(_, _, _)
InsertByOrder(sorted, x, byId) ==
    IF sorted = <<>> THEN <<x>>
    ELSE IF byId[Head(sorted)].order - byId[x].order > 0
         THEN <<x>> \o sorted
         ELSE <<Head(sorted)>> \o InsertByOrder(Tail(sorted), x, byId)

RECURSIVE SortFrom(_, _, _)
SortFrom(sorted, rest, byId) ==
    IF rest = <<>> THEN sorted
    ELSE SortFrom(InsertByOrder(sorted, Head(rest), byId), Tail(rest), byId)

SortByOrder(ids, byId) == SortFrom(<<>>, ids, byId)

\* function sortChildren(n) { n.children.sort(sortByOrder);
\*                            n.children.forEach(sortChildren); }
RECURSIVE SortChildren(_, _, _)
RECURSIVE SortEach(_, _, _)

SortChildrenShallow(n, nd, byId) == [nd EXCEPT ![n] = SortByOrder(nd[n], byId)]

SortChildren(n, nd, byId) ==
    LET sorted == [nd EXCEPT ![n] = SortByOrder(nd[n], byId)]
    IN  SortEach(sorted[n], sorted, byId)

\* xs.forEach(sortChildren)
SortEach(xs, nd, byId) ==
    IF xs = <<>> THEN nd
    ELSE SortEach(Tail(xs), SortChildren(Head(xs), nd, byId), byId)

\* the function as a whole: the returned roots and the node map behind them
BuildTaskTree(ts) ==
    LET byId     == ById(ts)
        attached == AttachAll([roots |-> <<>>, nodes |-> EmptyNodes(ts)], ts)
        sroots   == SortByOrder(attached.roots, byId)
    IN  [roots |-> sroots, nodes |-> SortEach(sroots, attached.nodes, byId)]

\* the forest behind a list of nodes, in pre-order: the nodes themselves and
\* all their descendants
RECURSIVE ForestIds(_, _)
ForestIds(xs, nd) ==
    IF xs = <<>> THEN <<>>
    ELSE <<Head(xs)>> \o ForestIds(nd[Head(xs)], nd) \o ForestIds(Tail(xs), nd)

(***************************************************************************)
(* Strings as token sequences: String.prototype.trim, toLowerCase,         *)
(* includes and split.                                                     *)
(***************************************************************************)
IsSpace(tok) == tok \in {" ", "\t", "\n"}

RECURSIVE TrimStart(_)
TrimStart(s) ==
    IF s # <<>> /\ IsSpace(Head(s)) THEN TrimStart(Tail(s)) ELSE s

RECURSIVE TrimEnd(_)
TrimEnd(s) ==
    IF s # <<>> /\ IsSpace(s[Len(s)]) THEN TrimEnd(SubSeq(s, 1, Len(s) - 1)) ELSE s

Trim(s) == TrimEnd(TrimStart(s))

\* the tokens that hold an upper-case letter, and their lower-case forms
LowerCase ==
    [tok \in {"Today", "TODAY", "Overdue", "OVERDUE", "Tomorrow", "#Work",
              "Filter", "FILTER", "Project", "PROJECT", "Section", "SECTION"} |->
        CASE tok \in {"Today", "TODAY"}     -> "today"
          [] tok \in {"Overdue", "OVERDUE"} -> "overdue"
          [] tok = "Tomorrow"               -> "tomorrow"
          [] tok = "#Work"                  -> "#work"
          [] tok \in {"Filter", "FILTER"}   -> "filter"
          [] tok \in {"Project", "PROJECT"} -> "project"
          [] tok \in {"Section", "SECTION"} -> "section"]

LowerTok(tok) == IF tok \in DOMAIN LowerCase THEN LowerCase[tok] ELSE tok

ToLowerCase(s) == [i \in 1..Len(s) |-> LowerTok(s[i])]

Includes(s, tok) == \E i \in 1..Len(s) : s[i] = tok

RECURSIVE Split(_, _)
Split(s, sep) ==
    IF ~Includes(s, sep) THEN <<s>>
    ELSE LET k == CHOOSE i \in 1..Len(s) :
                      s[i] = sep /\ \A j \in 1..(i - 1) : s[j] # sep
         IN  <<SubSeq(s, 1, k - 1)>> \o Split(SubSeq(s, k + 1, Len(s)), sep)

(***************************************************************************)
(* Due values.  A date string is a sequence of tokens: a run of the shape  *)
(* YYYY-MM-DD (of calendar day d, or of no calendar day when d is NoDay,   *)
(* as 2024-13-45), the separator T, a time of day, or free text.           *)
(* Time is counted in ticks, TicksPerDay to a local day.                   *)
(***************************************************************************)
TicksPerDay == 2       \* clock ticks in one local day
DaysAhead == 2         \* due days range from yesterday to today + DaysAhead
MaxFilterTasks == 2    \* longest task collection given to applyFilter

NoDay == -1
NaN == -1

Ymd(d)    == [c |-> "YYYY-MM-DD", n |-> d]
TSep      == [c |-> "T", n |-> 0]
TimeOfDay == [c |-> "HH:MM:SS", n |-> 1]
FreeText  == [c |-> "text", n |-> 0]

Null == <<>>

Due(date, datetime) == <<[date |-> date, datetime |-> datetime]>>

\* new Date(dateOnly + "T00:00:00"): local midnight of the day, or an
\* Invalid Date (time value NaN) when the digits are no calendar date
LocalMidnight(dateOnly) ==
    IF dateOnly[1].n = NoDay THEN NaN ELSE dateOnly[1].n * TicksPerDay

\* /^\d{4}-\d{2}-\d{2}$/.test(dateOnly)
IsYmd(dateOnly) == Len(dateOnly) = 1 /\ dateOnly[1].c = "YYYY-MM-DD"

\* parseDueDate: Null, or <<time value>>
ParseDueDate(task) ==
    IF task.due = NoDue THEN Null
    ELSE LET due     == task.due[1]
             dateStr == IF due.datetime # <<>> /\ due.datetime[1] # <<>>
                        THEN due.datetime[1]
                        ELSE due.date
         IN  IF dateStr = <<>> THEN Null
             ELSE LET dateOnly == IF Includes(dateStr, TSep)
                                  THEN Split(dateStr, TSep)[1]
                                  ELSE dateStr
                  IN  IF ~IsYmd(dateOnly) THEN Null
                      ELSE <<LocalMidnight(dateOnly)>>

\* without setHours(0, 0, 0, 0): the time of day is kept
StartOfDayKeepsTime(ts) == ts

\* d.setHours(0, 0, 0, 0)
StartOfDay(ts) == IF ts = NaN THEN NaN ELSE ts - (ts % TicksPerDay)

\* isToday, isOverdue, isTomorrow; clk is what new Date() reads
IsToday(date, clk) ==
    LET today   == StartOfDay(clk)
        compare == StartOfDay(date)
    IN  compare # NaN /\ compare = today

IsOverdueOrToday(date, clk) ==
    LET today   == StartOfDay(clk)
        compare == StartOfDay(date)
    IN  compare # NaN /\ compare <= today

IsOverdue(date, clk) ==
    LET today   == StartOfDay(clk)
        compare == StartOfDay(date)
    IN  compare # NaN /\ compare < today

IsTomorrow(date, clk) ==
    LET tomorrow == StartOfDay(clk + TicksPerDay)
        compare  == StartOfDay(date)
    IN  compare # NaN /\ compare = tomorrow

(***************************************************************************)
(* applyFilter (todoistApi.ts).                                            *)
(***************************************************************************)
\* the callbacks of tasks.filter(...) for "today", "overdue", "tomorrow"
FilterToday(task, clk) ==
    LET dueDate == ParseDueDate(task)
    IN  IF dueDate = Null THEN FALSE ELSE IsToday(dueDate[1], clk)

\* without the null check: new Date(null) is the epoch
FilterOverdueNoNullCheck(task, clk) ==
    LET dueDate == ParseDueDate(task)
    IN  IsOverdue(IF dueDate = Null THEN 0 ELSE dueDate[1], clk)

FilterOverdue(task, clk) ==
    LET dueDate == ParseDueDate(task)
    IN  IF dueDate = Null THEN FALSE ELSE IsOverdue(dueDate[1], clk)

FilterTomorrow(task, clk) ==
    LET dueDate == ParseDueDate(task)
    IN  IF dueDate = Null THEN FALSE ELSE IsTomorrow(dueDate[1], clk)

\* the callback with a part that is no predicate taken as matching
MatchPartUnknownMatches(part, dueDate, clk) ==
    IF part = <<"today">> THEN IsToday(dueDate, clk)
    ELSE IF part = <<"overdue">> THEN IsOverdue(dueDate, clk)
    ELSE IF part = <<"tomorrow">> THEN IsTomorrow(dueDate, clk)
    ELSE TRUE

\* the callback of parts.some(...) and parts.every(...)
MatchPart(part, dueDate, clk) ==
    IF part = <<"today">> THEN IsToday(dueDate, clk)
    ELSE IF part = <<"overdue">> THEN IsOverdue(dueDate, clk)
    ELSE IF part = <<"tomorrow">> THEN IsTomorrow(dueDate, clk)
    ELSE FALSE

\* filterLower.split(sep).map((p) => p.trim())
Parts(filterLower, sep) ==
    LET raw == Split(filterLower, sep)
    IN  [i \in 1..Len(raw) |-> Trim(raw[i])]

\* the callback of tasks.filter(...) in the | branch
FilterAnyAsEvery(task, parts, clk) ==
    LET dueDate == ParseDueDate(task)
    IN  IF dueDate = Null THEN FALSE
        ELSE \A i \in 1..Len(parts) : MatchPart(parts[i], dueDate[1], clk)

FilterAny(task, parts, clk) ==
    LET dueDate == ParseDueDate(task)
    IN  IF dueDate = Null THEN FALSE
        ELSE \E i \in 1..Len(parts) : MatchPart(parts[i], dueDate[1], clk)

\* the callback of tasks.filter(...) in the & branch
FilterAllAsSome(task, parts, clk) ==
    LET dueDate == ParseDueDate(task)
    IN  IF dueDate = Null THEN FALSE
        ELSE \E i \in 1..Len(parts) : MatchPart(parts[i], dueDate[1], clk)

FilterAll(task, parts, clk) ==
    LET dueDate == ParseDueDate(task)
    IN  IF dueDate = Null THEN FALSE
        ELSE \A i \in 1..Len(parts) : MatchPart(parts[i], dueDate[1], clk)

\* the last line: no known pattern, return tasks
NoKnownPatternNone(ts) == <<>>

NoKnownPattern(ts) == ts

\* applyFilter with the & branch tried before the | branch
ApplyFilterAndFirst(ts, flt, clk) ==
    LET filterLower == ToLowerCase(Trim(flt))
        today(t)    == FilterToday(t, clk)
        overdue(t)  == FilterOverdue(t, clk)
        tomorrow(t) == FilterTomorrow(t, clk)
        any(t)      == FilterAny(t, Parts(filterLower, "|"), clk)
        all(t)      == FilterAll(t, Parts(filterLower, "&"), clk)
    IN  IF filterLower = <<"today">> THEN SelectSeq(ts, today)
        ELSE IF filterLower = <<"overdue">> THEN SelectSeq(ts, overdue)
        ELSE IF filterLower = <<"tomorrow">> THEN SelectSeq(ts, tomorrow)
        ELSE IF Includes(filterLower, "&") THEN SelectSeq(ts, all)
        ELSE IF Includes(filterLower, "|") THEN SelectSeq(ts, any)
        ELSE NoKnownPattern(ts)

ApplyFilter(ts, flt, clk) ==
    LET filterLower == ToLowerCase(Trim(flt))
        today(t)    == FilterToday(t, clk)
        overdue(t)  == FilterOverdue(t, clk)
        tomorrow(t) == FilterTomorrow(t, clk)
        any(t)      == FilterAny(t, Parts(filterLower, "|"), clk)
        all(t)      == FilterAll(t, Parts(filterLower, "&"), clk)
    IN  IF filterLower = <<"today">> THEN SelectSeq(ts, today)
        ELSE IF filterLower = <<"overdue">> THEN SelectSeq(ts, overdue)
        ELSE IF filterLower = <<"tomorrow">> THEN SelectSeq(ts, tomorrow)
        ELSE IF Includes(filterLower, "|") THEN SelectSeq(ts, any)
        ELSE IF Includes(filterLower, "&") THEN SelectSeq(ts, all)
        ELSE NoKnownPattern(ts)

(***************************************************************************)
(* parseTodoistQuery (parseQuery.ts).  The regular expressions are matched *)
(* the way a backtracking matcher does: of the ways to match, the one that *)
(* is greedy at the leftmost quantifier is taken.  A keyword, a number, a  *)
(* word, ":" and each white-space or quote character is one token.         *)
(***************************************************************************)
IsQuote(tok) == tok \in {"\"", "'"}

DigitTokens == {"123"}

\* /^\d+$/.test(s)
IsDigits(s) == s # <<>> /\ \A i \in 1..Len(s) : s[i] \in DigitTokens

\* \s* at the head of s: the number of white-space tokens it takes
RECURSIVE SpaceRun(_)
SpaceRun(s) ==
    IF s # <<>> /\ IsSpace(Head(s)) THEN 1 + SpaceRun(Tail(s)) ELSE 0

Drop(s, k) == SubSeq(s, k + 1, Len(s))

None == <<>>
Some(v) == <<v>>

\* ^\s*keyword\s*:  or  ^\s*keyword, case-insensitive: what follows it in
\* the line, or None
AfterKeyword(line, keyword) ==
    LET s == Drop(line, SpaceRun(line))
    IN  IF s # <<>> /\ LowerTok(Head(s)) = keyword THEN Some(Tail(s)) ELSE None

AfterColon(rest) ==
    LET s == Drop(rest, SpaceRun(rest))
    IN  IF s # <<>> /\ Head(s) = ":" THEN Some(Tail(s)) ELSE None

\* \s*["']?([^"'\n]+)["']?$ on r: the ways to match are k white-space
\* tokens, an opening quote or none (a), the group up to e, a closing quote
\* or none; the matcher takes the largest k, then an opening quote if it can
QuotedValueMatches(r) ==
    {m \in [k : 0..Len(r), a : {0, 1}, e : 1..Len(r)] :
        /\ \A i \in 1..m.k : IsSpace(r[i])
        /\ m.a = 1 => (m.k + 1 <= Len(r) /\ IsQuote(r[m.k + 1]))
        /\ m.e >= m.k + m.a + 1
        /\ \A i \in (m.k + m.a + 1)..m.e : ~IsQuote(r[i]) /\ r[i] # "\n"
        /\ \/ m.e = Len(r)
           \/ m.e = Len(r) - 1 /\ IsQuote(r[Len(r)])}

QuotedValue(r) ==
    LET ms == QuotedValueMatches(r)
    IN  IF ms = {} THEN None
        ELSE LET m == CHOOSE x \in ms :
                          \A y \in ms :
                              \/ x.k > y.k
                              \/ x.k = y.k /\ x.a > y.a
                              \/ x.k = y.k /\ x.a = y.a /\ x.e >= y.e
             IN  Some(SubSeq(r, m.k + m.a + 1, m.e))

\* \s+([^\n]+)$ on r: the group is what follows the white space, as far as
\* the matcher can take it
RestOfLineMatches(r) ==
    {k \in 1..Len(r) :
        /\ \A i \in 1..k : IsSpace(r[i])
        /\ k < Len(r)
        /\ \A i \in (k + 1)..Len(r) : r[i] # "\n"}

RestOfLine(r) ==
    LET ks == RestOfLineMatches(r)
    IN  IF ks = {} THEN None
        ELSE Some(Drop(r, CHOOSE k \in ks : \A j \in ks : k >= j))

\* \s*(\S+)$ on r (atLeast = 0) or \s+(\S+)$ (atLeast = 1)
OneWord(r, atLeast) ==
    LET k == SpaceRun(r)
        w == Drop(r, k)
    IN  IF k >= atLeast /\ w # <<>> /\ \A i \in 1..Len(w) : ~IsSpace(w[i])
        THEN Some(w) ELSE None

\* line.match(/^\s*filter\s*:\s*["']?([^"'\n]+)["']?$/i)
\*   || line.match(/^\s*filter\s+([^\n]+)$/i)
FilterMatch(line) ==
    LET kw == AfterKeyword(line, "filter")
    IN  IF kw = None THEN None
        ELSE LET colon == AfterColon(kw[1])
                 first == IF colon = None THEN None ELSE QuotedValue(colon[1])
             IN  IF first # None THEN first ELSE RestOfLine(kw[1])

\* only the colon form of the project and section regexes
WordMatchColonOnly(line, keyword) ==
    LET kw == AfterKeyword(line, keyword)
    IN  IF kw = None THEN None
        ELSE LET colon == AfterColon(kw[1])
             IN  IF colon = None THEN None ELSE OneWord(colon[1], 0)

\* line.match(/^\s*project\s*:\s*(\S+)$/i) || line.match(/^\s*project\s+(\S+)$/i)
\* and the same for section
WordMatch(line, keyword) ==
    LET kw == AfterKeyword(line, keyword)
    IN  IF kw = None THEN None
        ELSE LET colon == AfterColon(kw[1])
                 first == IF colon = None THEN None ELSE OneWord(colon[1], 0)
             IN  IF first # None THEN first ELSE OneWord(kw[1], 1)

NoQuery == [projectId |-> None, sectionId |-> None, filter |-> None]

\* q.filter = source in place of q.filter = line
ParseTodoistQueryRaw(src) ==
    LET line         == Trim(src)
        filterMatch  == FilterMatch(line)
        projectMatch == WordMatch(line, "project")
        sectionMatch == WordMatch(line, "section")
    IN  IF line = <<>> THEN NoQuery
        ELSE IF filterMatch # None
             THEN [NoQuery EXCEPT !.filter = Some(Trim(filterMatch[1]))]
        ELSE IF projectMatch # None
             THEN [NoQuery EXCEPT !.projectId = Some(Trim(projectMatch[1]))]
        ELSE IF sectionMatch # None
             THEN [NoQuery EXCEPT !.sectionId = Some(Trim(sectionMatch[1]))]
        ELSE IF IsDigits(line)
             THEN [NoQuery EXCEPT !.projectId = Some(line)]
        ELSE [NoQuery EXCEPT !.filter = Some(src)]

\* without the early return of line 14
ParseTodoistQueryNoEmptyCheck(src) ==
    LET line         == Trim(src)
        filterMatch  == FilterMatch(line)
        projectMatch == WordMatch(line, "project")
        sectionMatch == WordMatch(line, "section")
    IN  IF FALSE THEN NoQuery
        ELSE IF filterMatch # None
             THEN [NoQuery EXCEPT !.filter = Some(Trim(filterMatch[1]))]
        ELSE IF projectMatch # None
             THEN [NoQuery EXCEPT !.projectId = Some(Trim(projectMatch[1]))]
        ELSE IF sectionMatch # None
             THEN [NoQuery EXCEPT !.sectionId = Some(Trim(sectionMatch[1]))]
        ELSE IF IsDigits(line)
             THEN [NoQuery EXCEPT !.projectId = Some(line)]
        ELSE [NoQuery EXCEPT !.filter = Some(line)]

ParseTodoistQuery(src) ==
    LET line         == Trim(src)
        filterMatch  == FilterMatch(line)
        projectMatch == WordMatch(line, "project")
        sectionMatch == WordMatch(line, "section")
    IN  IF line = <<>> THEN NoQuery
        ELSE IF filterMatch # None
             THEN [NoQuery EXCEPT !.filter = Some(Trim(filterMatch[1]))]
        ELSE IF projectMatch # None
             THEN [NoQuery EXCEPT !.projectId = Some(Trim(projectMatch[1]))]
        ELSE IF sectionMatch # None
             THEN [NoQuery EXCEPT !.sectionId = Some(Trim(sectionMatch[1]))]
        ELSE IF IsDigits(line)
             THEN [NoQuery EXCEPT !.projectId = Some(line)]
        ELSE [NoQuery EXCEPT !.filter = Some(line)]

(***************************************************************************)
(* The Sync API (todoistApi.ts): raw items, syncItemToTask and fetchTasks. *)
(* A field of a raw item that may be missing or null is a tagged value;    *)
(* an optional number or boolean is <<>> (missing) or <<v>>.  Task and     *)
(* parent ids are numbers as above; project and section ids are strings,   *)
(* as in the options render hands over.                                    *)
(***************************************************************************)
Missing(zero) == [t |-> "undefined", v |-> zero]
NullOf(zero)  == [t |-> "null", v |-> zero]
Val(x)        == [t |-> "value", v |-> x]

\* x ?? d
Coalesce(x, d) == IF x.t \in {"undefined", "null"} THEN d ELSE x.v

\* a ?? b for optional numbers
OrElse(a, b) == IF a # <<>> THEN a ELSE b

\* a SyncItem with its optional fields (lines 38-56)
SyncItem(id, project, section, parent, completed, checked, io, co, due) ==
    [id |-> id, project_id |-> project, section_id |-> section,
     parent_id |-> parent, completed |-> completed, checked |-> checked,
     item_order |-> io, child_order |-> co, due |-> due]

\* the due of syncItemToTask: null, or { date: item.due.date ?? "", datetime }
MapDue(rawDue) ==
    IF rawDue = <<>> THEN NoDue
    ELSE Due(IF rawDue[1].date = <<>> THEN <<>> ELSE rawDue[1].date[1],
             rawDue[1].datetime)

\* section_id: item.section_id ?? ""
SyncItemToTaskEmptyString(item) ==
    [id           |-> item.id,
     is_completed |-> item.completed = <<TRUE>> \/ item.checked = <<TRUE>>,
     order        |-> OrElse(OrElse(item.item_order, item.child_order), <<0>>)[1],
     project_id   |-> item.project_id,
     due          |-> MapDue(item.due),
     section_id   |-> Coalesce(item.section_id, Some(<<>>)),
     parent_id    |-> Coalesce(item.parent_id, NoId)]

SyncItemToTask(item) ==
    [id           |-> item.id,
     is_completed |-> item.completed = <<TRUE>> \/ item.checked = <<TRUE>>,
     order        |-> OrElse(OrElse(item.item_order, item.child_order), <<0>>)[1],
     project_id   |-> item.project_id,
     due          |-> MapDue(item.due),
     section_id   |-> Coalesce(item.section_id, None),
     parent_id    |-> Coalesce(item.parent_id, NoId)]

\* items.map(syncItemToTask)
MapItems(its) == [k \in 1..Len(its) |-> SyncItemToTask(its[k])]

\* tasks.sort((a, b) => a.order - b.order), a stable sort
RECURSIVE InsertTask(_, _)
InsertTask(sorted, x) ==
    IF sorted = <<>> THEN <<x>>
    ELSE IF Head(sorted).order - x.order > 0
         THEN <<x>> \o sorted
         ELSE <<Head(sorted)>> \o InsertTask(Tail(sorted), x)

RECURSIVE SortTasksFrom(_, _)
SortTasksFrom(sorted, rest) ==
    IF rest = <<>> THEN sorted
    ELSE SortTasksFrom(InsertTask(sorted, Head(rest)), Tail(rest))

SortTasks(ts) == SortTasksFrom(<<>>, ts)

\* if (x): an option that is set to a non-empty string
Truthy(opt) == opt # None /\ opt[1] # <<>>

OkStatus == 200

StatusText ==
    [st \in {200, 401, 500} |->
        CASE st = 200 -> "200" [] st = 401 -> "401" [] st = 500 -> "500"]

\* a response of requestUrl: its status and, when the body is JSON, the
\* parsed data with the body's text
Response(status, data) == [status |-> status, data |-> data]

\* lines 242-251: the Error thrown for a status other than 200
ApiError(res) ==
    <<"Todoist API error ", StatusText[res.status], ": ">>
        \o (IF res.data # <<>> THEN res.data[1].text
            ELSE <<StatusText[res.status]>>)

JsonError == <<"Response has no json method, Promise, or text">>

\* the selections without the one by section
SelectTasksNoSection(ts, opts, clk) ==
    LET InProject(t) == t.project_id = opts.projectId[1]
        Open(t)      == ~t.is_completed
        a == IF Truthy(opts.projectId) THEN SelectSeq(ts, InProject) ELSE ts
        c == IF ~opts.includeCompleted THEN SelectSeq(a, Open) ELSE a
    IN  IF Truthy(opts.filter) THEN ApplyFilter(c, opts.filter[1], clk) ELSE c

\* lines 257-260: the selections, one after the other
SelectTasks(ts, opts, clk) ==
    LET InProject(t) == t.project_id = opts.projectId[1]
        InSection(t) == t.section_id = opts.sectionId
        Open(t)      == ~t.is_completed
        a == IF Truthy(opts.projectId) THEN SelectSeq(ts, InProject) ELSE ts
        b == IF Truthy(opts.sectionId) THEN SelectSeq(a, InSection) ELSE a
        c == IF ~opts.includeCompleted THEN SelectSeq(b, Open) ELSE b
    IN  IF Truthy(opts.filter) THEN ApplyFilter(c, opts.filter[1], clk) ELSE c

\* fetchTasks without the check of the status
FetchTasksAnyStatus(res, opts, clk) ==
    IF res.data = <<>>
    THEN [rejected |-> TRUE, message |-> JsonError, tasks |-> <<>>]
    ELSE LET its == OrElse(res.data[1].items, <<(<<>>)>>)[1]
         IN  [rejected |-> FALSE, message |-> <<>>,
              tasks |-> SortTasks(SelectTasks(MapItems(its), opts, clk))]

\* fetchTasks: the tasks it resolves with, or the message it rejects with
FetchTasks(res, opts, clk) ==
    IF res.status # OkStatus
    THEN [rejected |-> TRUE, message |-> ApiError(res), tasks |-> <<>>]
    ELSE IF res.data = <<>>
    THEN [rejected |-> TRUE, message |-> JsonError, tasks |-> <<>>]
    ELSE LET its == OrElse(res.data[1].items, <<(<<>>)>>)[1]
         IN  [rejected |-> FALSE, message |-> <<>>,
              tasks |-> SortTasks(SelectTasks(MapItems(its), opts, clk))]

\* data.sync_status?.[uuid] of a command's response: missing, "ok", another
\* string, or an object with or without an error text
SyncMissing == [t |-> "missing", error |-> <<>>]
SyncOk == [t |-> "ok", error |-> <<>>]
SyncOther == [t |-> "string", error |-> <<>>]
SyncObject(error) == [t |-> "object", error |-> error]

Resolved == [rejected |-> FALSE, message |-> <<>>]
Rejected(message) == [rejected |-> TRUE, message |-> message]

\* closeTask and reopenTask without the check of the command's sync_status
CommandStatusUnchecked(res) ==
    IF res.data = <<>> THEN Rejected(JsonError) ELSE Resolved

\* lines 289-298 and 327-336: the sync_status of the command decides
CommandStatus(res) ==
    IF res.data = <<>> THEN Rejected(JsonError)
    ELSE LET status == res.data[1].sync
         IN  IF status.t = "object" /\ status.error # <<>>
             THEN Rejected(status.error)
             ELSE Resolved

\* closeTask: how its promise settles
CloseTask(res) ==
    IF res.status # OkStatus
    THEN Rejected(<<"Todoist close task failed: ", StatusText[res.status]>>)
    ELSE CommandStatus(res)

\* reopenTask: how its promise settles
ReopenTask(res) ==
    IF res.status # OkStatus
    THEN Rejected(<<"Todoist reopen task failed: ", StatusText[res.status]>>)
    ELSE CommandStatus(res)

(***************************************************************************)
(* renderTaskTree and createTaskLine (renderer.ts): the task lines of a    *)
(* forest, in document order.                                              *)
(***************************************************************************)
\* createTaskLine: input.checked = task.is_completed
CreateTaskLine(task, depth) ==
    [id |-> task.id, checked |-> task.is_completed, depth |-> depth]

\* renderNode, and the loops over the children and over the roots
RECURSIVE RenderNodes(_, _, _, _, _)
RenderNode(n, depth, nd, byId, showCompleted) ==
    IF ~showCompleted /\ byId[n].is_completed THEN <<>>
    ELSE <<CreateTaskLine(byId[n], depth)>>
             \o RenderNodes(nd[n], depth + 1, nd, byId, showCompleted)

RenderNodes(xs, depth, nd, byId, showCompleted) ==
    IF xs = <<>> THEN <<>>
    ELSE RenderNode(Head(xs), depth, nd, byId, showCompleted)
             \o RenderNodes(Tail(xs), depth, nd, byId, showCompleted)

RenderTaskTree(rts, nd, byId, showCompleted) ==
    RenderNodes(rts, 0, nd, byId, showCompleted)

(***************************************************************************)
(* The plugin's settings (settings.ts) and TodoistBlockRenderer.render     *)
(* (main.ts) up to its call of fetchTasks.                                 *)
(***************************************************************************)
DEFAULT_SETTINGS ==
    [apiToken |-> <<>>, defaultProjectOrFilter |-> <<>>,
     showCompletedTasks |-> FALSE, refreshIntervalMinutes |-> 15]

TokenMessage == <<"Todoist: Set your API token in plugin settings.">>

\* the default setting taken without trim()
RenderOptionsRawDefault(src, st) ==
    LET token     == Trim(st.apiToken)
        q         == ParseTodoistQuery(src)
        defaultQ  == st.defaultProjectOrFilter
        projectId == IF q.projectId # None THEN q.projectId
                     ELSE IF defaultQ # <<>> /\ IsDigits(defaultQ)
                          THEN Some(defaultQ) ELSE None
        sectionId == q.sectionId
        flt       == IF q.filter # None THEN q.filter
                     ELSE IF defaultQ # <<>> /\ ~IsDigits(defaultQ)
                          THEN Some(defaultQ) ELSE None
    IN  [token            |-> token,
         projectId        |-> projectId,
         sectionId        |-> sectionId,
         filter           |-> IF flt # None /\ flt[1] # <<>> THEN flt ELSE None,
         includeCompleted |-> st.showCompletedTasks]

\* the options render hands to fetchTasks
RenderOptions(src, st) ==
    LET token     == Trim(st.apiToken)
        q         == ParseTodoistQuery(src)
        defaultQ  == Trim(st.defaultProjectOrFilter)
        projectId == IF q.projectId # None THEN q.projectId
                     ELSE IF defaultQ # <<>> /\ IsDigits(defaultQ)
                          THEN Some(defaultQ) ELSE None
        sectionId == q.sectionId
        flt       == IF q.filter # None THEN q.filter
                     ELSE IF defaultQ # <<>> /\ ~IsDigits(defaultQ)
                          THEN Some(defaultQ) ELSE None
    IN  [token            |-> token,
         projectId        |-> projectId,
         sectionId        |-> sectionId,
         filter           |-> IF flt # None /\ flt[1] # <<>> THEN flt ELSE None,
         includeCompleted |-> st.showCompletedTasks]

(***************************************************************************)
(* The task collections buildTaskTree is applied to, built one task at a   *)
(* time: ids are unique (the data model's invariant), here the position in *)
(* the collection; a parent_id is null, the id of a task of the collection *)
(* (the task itself and cycles included), or an id outside of it           *)
(* (MaxTasks + 1, and any id beyond the collection's final length).        *)
(* Only the comparison of two order values matters to the code, and two    *)
(* values give all three outcomes.                                         *)
(***************************************************************************)
OrderValues == {0, 1}
ParentValues == 0..(MaxTasks + 1)

\* no block is shown
IdleUi ==
    /\ inflight = <<>>
    /\ lines = <<>>
    /\ toggleCalls = <<>>
    /\ notices = <<>>

\* no step by step run is going on
IdleSteps ==
    /\ stack = <<>>
    /\ visits = <<>>
    /\ cursor = <<>>

NoTimer == 0

\* the plugin is not loaded
IdleHost ==
    /\ shown = 0
    /\ awaiting = 0
    /\ refreshIntervalId = NoTimer
    /\ timers = {}
    /\ blockRenderers = {}
    /\ block = "none"

\* the plugin is loaded, its timer runs and its block is registered
LoadedHost ==
    /\ shown = 0
    /\ awaiting = 0
    /\ refreshIntervalId = 1
    /\ timers = {[id |-> 1, mins |-> 15]}
    /\ blockRenderers = {1}
    /\ block = "loaded"

IdleRest ==
    /\ filter = <<>>
    /\ now = 0
    /\ filtered = <<>>
    /\ source = <<>>
    /\ query = NoQuery
    /\ settings = <<>>
    /\ fetchCalls = <<>>
    /\ container = <<>>
    /\ items = <<>>
    /\ IdleUi
    /\ IdleSteps
    /\ IdleHost

InitTree ==
    /\ pc = "input"
    /\ tasks = <<>>
    /\ roots = <<>>
    /\ nodes = <<>>
    /\ IdleRest

\* roots = buildTaskTree(tasks)
DoBuildTaskTree ==
    /\ pc = "input"
    /\ LET r == BuildTaskTree(tasks)
       IN  /\ roots' = r.roots
           /\ nodes' = r.nodes
    /\ pc' = "built"
    /\ UNCHANGED <<tasks, filter, now, filtered, source, query, settings,
                   fetchCalls, container, items, ui, steps,
                   host>>

\* the caller's collection grows by one task
AddTreeTask ==
    /\ pc = "input"
    /\ Len(tasks) < MaxTasks
    /\ \E o \in OrderValues, p \in ParentValues :
          tasks' = Append(tasks, Task(Len(tasks) + 1, o, p, NoDue))
    /\ UNCHANGED <<pc, roots, nodes, filter, now, filtered, source, query,
                   settings, fetchCalls, container, items, ui, steps,
                   host>>

NextTree == AddTreeTask \/ DoBuildTaskTree

SpecTree == InitTree /\ [][NextTree]_vars

(***************************************************************************)
(* buildTaskTree step by step: the loops of lines 8-26 and the sort of the *)
(* roots in one step, then sortChildren (lines 30-34) one call and one     *)
(* return at a time.  stack holds the forEach loops in progress: the node  *)
(* whose children are walked (NoId for roots.forEach) and the place of the *)
(* child that comes next.                                                  *)
(***************************************************************************)
MaxSortTasks == 3      \* longest task collection of the step by step run

SortParentValues == 0..(MaxSortTasks + 1)

InitSort ==
    /\ pc = "input"
    /\ tasks = <<>>
    /\ roots = <<>>
    /\ nodes = <<>>
    /\ IdleRest

AddSortTask ==
    /\ pc = "input"
    /\ Len(tasks) < MaxSortTasks
    /\ \E o \in OrderValues, p \in SortParentValues :
          tasks' = Append(tasks, Task(Len(tasks) + 1, o, p, NoDue))
    /\ UNCHANGED <<pc, roots, nodes, filter, now, filtered, source, query,
                   settings, fetchCalls, container, items, ui, steps, host>>

\* lines 8-29: the maps, the roots and the children, roots.sort, and the
\* start of roots.forEach(sortChildren)
AttachAndSortRoots ==
    /\ pc = "input"
    /\ LET attached ==
               AttachAll([roots |-> <<>>, nodes |-> EmptyNodes(tasks)], tasks)
       IN  /\ roots' = SortByOrder(attached.roots, ById(tasks))
           /\ nodes' = attached.nodes
    /\ stack' = <<[n |-> NoId, k |-> 1]>>
    /\ visits' = <<>>
    /\ pc' = "sorting"
    /\ UNCHANGED <<tasks, filter, now, filtered, source, query, settings,
                   fetchCalls, container, items, ui, cursor, host>>

\* the array a forEach loop walks
Walked(frame) == IF frame.n = NoId THEN roots ELSE nodes[frame.n]

\* the loop on top of the stack calls sortChildren(c) on its next element:
\* c.children.sort(sortByOrder), then c.children.forEach begins
CallSortChildren ==
    /\ pc = "sorting"
    /\ stack # <<>>
    /\ LET top == stack[Len(stack)]
       IN  /\ top.k <= Len(Walked(top))
           /\ LET c == Walked(top)[top.k]
              IN  /\ nodes' = SortChildrenShallow(c, nodes, ById(tasks))
                  /\ visits' = Append(visits, c)
                  /\ stack' = Append([stack EXCEPT ![Len(stack)].k = top.k + 1],
                                     [n |-> c, k |-> 1])
    /\ UNCHANGED <<pc, tasks, roots, filter, now, filtered, source, query,
                   settings, fetchCalls, container, items, ui, cursor, host>>

\* the loop on top of the stack is at its end: sortChildren returns, and
\* buildTaskTree returns after roots.forEach
ReturnSortChildren ==
    /\ pc = "sorting"
    /\ stack # <<>>
    /\ stack[Len(stack)].k > Len(Walked(stack[Len(stack)]))
    /\ stack' = SubSeq(stack, 1, Len(stack) - 1)
    /\ pc' = IF Len(stack) = 1 THEN "built" ELSE "sorting"
    /\ UNCHANGED <<tasks, roots, nodes, filter, now, filtered, source, query,
                   settings, fetchCalls, container, items, ui, visits, cursor,
                   host>>

NextSort ==
    AddSortTask \/ AttachAndSortRoots \/ CallSortChildren \/ ReturnSortChildren

\* buildTaskTree is synchronous: once called it runs on
SpecSort == InitSort /\ [][NextSort]_vars /\ WF_vars(NextSort)

(***************************************************************************)
(* The inputs of applyFilter.  The clock stands at the first or the last   *)
(* tick of local day ThisDay; due days range from the day before to        *)
(* DaysAhead days after it.                                                *)
(***************************************************************************)
ThisDay == 1
DueDays == (ThisDay - 1)..(ThisDay + DaysAhead)
ClockValues == {ThisDay * TicksPerDay, (ThisDay + 1) * TicksPerDay - 1}

DateTimeStr(d) == <<Ymd(d), TSep, TimeOfDay>>

Dues ==
    {NoDue, Due(<<>>, <<>>), Due(<<FreeText>>, <<>>)}
    \cup {Due(<<Ymd(d)>>, <<>>) : d \in DueDays \cup {NoDay}}
    \cup {Due(<<>>, <<DateTimeStr(d)>>) : d \in (ThisDay - 1)..(ThisDay + 1)}
    \cup {Due(DateTimeStr(ThisDay), <<>>)}
    \cup {Due(<<Ymd(ThisDay - 1)>>, <<DateTimeStr(ThisDay)>>),
          Due(<<Ymd(ThisDay)>>, <<(<<>>)>>)}

Join(a, op, b) == a \o <<" ", op, " ">> \o b

FilterWords == {"today", "overdue", "tomorrow", "#Work"}

FilterExprs ==
    {<<w>> : w \in FilterWords \cup {"Today", "OVERDUE", "later"}}
    \cup {<<" ", "Tomorrow", " ">>, <<"today", " ", "today">>, <<>>}
    \cup {Join(<<a>>, op, <<b>>) : a, b \in FilterWords, op \in {"|", "&"}}
    \cup {<<"today", "|", "overdue">>, <<"Today", "&", "TODAY">>,
          Join(<<"today">>, "&", <<"!subtask">>),
          Join(<<"today">>, "|", Join(<<"overdue">>, "|", <<"tomorrow">>)),
          Join(<<"today">>, "&", Join(<<"overdue">>, "|", <<"tomorrow">>)),
          Join(<<"today">>, "|", Join(<<"overdue">>, "&", <<"tomorrow">>))}

InitFilter ==
    /\ pc = "input"
    /\ tasks = <<>>
    /\ roots = <<>>
    /\ nodes = <<>>
    /\ filter \in FilterExprs
    /\ now \in ClockValues
    /\ filtered = <<>>
    /\ source = <<>>
    /\ query = NoQuery
    /\ settings = <<>>
    /\ fetchCalls = <<>>
    /\ container = <<>>
    /\ items = <<>>
    /\ IdleUi
    /\ IdleSteps
    /\ IdleHost

\* the caller's collection grows by one task
AddFilterTask ==
    /\ pc = "input"
    /\ Len(tasks) < MaxFilterTasks
    /\ \E due \in Dues :
          tasks' = Append(tasks, Task(Len(tasks) + 1, 0, NoId, due))
    /\ UNCHANGED <<pc, roots, nodes, filter, now, filtered, source, query,
                   settings, fetchCalls, container, items, ui, steps,
                   host>>

\* filtered = applyFilter(tasks, filter)
DoApplyFilter ==
    /\ pc = "input"
    /\ filtered' = ApplyFilter(tasks, filter, now)
    /\ pc' = "filtered"
    /\ UNCHANGED <<tasks, roots, nodes, filter, now, source, query, settings,
                   fetchCalls, container, items, ui, steps,
                   host>>

NextFilter == AddFilterTask \/ DoApplyFilter

SpecFilter == InitFilter /\ [][NextFilter]_vars

(***************************************************************************)
(* The inputs of parseTodoistQuery: a block content that starts with one   *)
(* of the keyword forms, or with none, and goes on token by token.         *)
(***************************************************************************)
MaxSourceLen == 5      \* longest block content given to parseTodoistQuery

Keywords == {"filter", "FILTER", "project", "Project", "section", "SECTION"}
Separators == {<<":">>, <<" ">>, <<":", " ">>, <<" ", ":", " ">>}
Heads == {<<>>} \cup {<<kw>> \o sep : kw \in Keywords, sep \in Separators}
BodyTokens == {" ", "\n", "\"", "'", ":", "123", "today", "|"}

InitParse ==
    /\ pc = "input"
    /\ tasks = <<>>
    /\ roots = <<>>
    /\ nodes = <<>>
    /\ filter = <<>>
    /\ now = 0
    /\ filtered = <<>>
    /\ source \in Heads
    /\ query = NoQuery
    /\ settings = <<>>
    /\ fetchCalls = <<>>
    /\ container = <<>>
    /\ items = <<>>
    /\ IdleUi
    /\ IdleSteps
    /\ IdleHost

\* the block content grows by one token
TypeToken ==
    /\ pc = "input"
    /\ Len(source) < MaxSourceLen
    /\ \E tok \in BodyTokens : source' = Append(source, tok)
    /\ UNCHANGED <<pc, tasks, roots, nodes, filter, now, filtered, query,
                   settings, fetchCalls, container, items, ui, steps,
                   host>>

\* query = parseTodoistQuery(source)
DoParseTodoistQuery ==
    /\ pc = "input"
    /\ query' = ParseTodoistQuery(source)
    /\ pc' = "parsed"
    /\ UNCHANGED <<tasks, roots, nodes, filter, now, filtered, source,
                   settings, fetchCalls, container, items, ui, steps,
                   host>>

NextParse == TypeToken \/ DoParseTodoistQuery

SpecParse == InitParse /\ [][NextParse]_vars

(***************************************************************************)
(* fetchTasks followed by buildTaskTree (render, lines 131-141) on the     *)
(* items of a 200 response, built one item at a time.  An item either      *)
(* varies in what the selections read (project, section, completion, due,  *)
(* order) or in what the tree reads (parent_id and section_id missing,     *)
(* null or set); ids are the positions.                                    *)
(***************************************************************************)
MaxItems == 2          \* most items of a response

ProjectA == <<"123">>
ProjectB == <<"456">>
SectionA == <<"123">>

RawDueToday == <<[date |-> <<(<<Ymd(ThisDay)>>)>>, datetime |-> <<>>]>>
RawDueNoDate == <<[date |-> <<>>, datetime |-> <<>>]>>

SelectionItems(id) ==
    {SyncItem(id, ps[1], ps[2], Missing(NoId), done[1], done[2], ord[1],
              ord[2], due) :
        ps \in {<<ProjectA, NullOf(None)>>, <<ProjectA, Val(Some(SectionA))>>,
                <<ProjectB, NullOf(None)>>},
        done \in {<<(<<>>), <<>>>>, <<(<<FALSE>>), <<TRUE>>>>},
        ord \in {<<(<<1>>), <<0>>>>, <<(<<>>), <<0>>>>},
        due \in {<<>>, RawDueToday}}

HierarchyItems(id) ==
    {SyncItem(id, ProjectA, section, parent, <<TRUE>>, <<>>, <<>>, <<>>,
              RawDueNoDate) :
        section \in {Missing(None), NullOf(None)},
        parent \in {Missing(NoId), NullOf(NoId), Val(1), Val(MaxItems + 2)}}

FetchOptions ==
    [token : {<<"token">>}, projectId : {None, Some(ProjectA)},
     sectionId : {None, Some(SectionA)}, filter : {None, Some(<<"today">>)},
     includeCompleted : BOOLEAN]

InitFetch ==
    /\ pc = "input"
    /\ tasks = <<>>
    /\ roots = <<>>
    /\ nodes = <<>>
    /\ filter = <<>>
    /\ now = ThisDay * TicksPerDay
    /\ filtered = <<>>
    /\ source = <<>>
    /\ query = NoQuery
    /\ settings = <<>>
    /\ fetchCalls = <<>>
    /\ container = <<>>
    /\ items = <<>>
    /\ IdleUi
    /\ IdleSteps
    /\ IdleHost

\* the response grows by one item
AddItem ==
    /\ pc = "input"
    /\ Len(items) < MaxItems
    /\ \E it \in SelectionItems(Len(items) + 1)
                     \cup HierarchyItems(Len(items) + 1) :
          items' = Append(items, it)
    /\ UNCHANGED <<pc, tasks, roots, nodes, filter, now, filtered, source,
                   query, settings, fetchCalls, container, ui, steps,
                   host>>

\* tasks = await fetchTasks(..., opts); roots = buildTaskTree(tasks)
FetchAndBuild ==
    /\ pc = "input"
    /\ \E opts \in FetchOptions :
          LET res == Response(OkStatus,
                              <<[items |-> <<items>>, text |-> <<"{...}">>]>>)
              got == FetchTasks(res, opts, now)
              r   == BuildTaskTree(got.tasks)
          IN  /\ fetchCalls' = <<opts>>
              /\ tasks' = got.tasks
              /\ roots' = r.roots
              /\ nodes' = r.nodes
    /\ pc' = "fetched"
    /\ UNCHANGED <<filter, now, filtered, source, query, settings, container,
                   items, ui, steps,
                   host>>

NextFetch == AddItem \/ FetchAndBuild

SpecFetch == InitFetch /\ [][NextFetch]_vars

(***************************************************************************)
(* The pipeline of one render (fetchTasks lines 253-264, then              *)
(* buildTaskTree) run twice on the items of one response, the clock        *)
(* advancing between the two runs up to the end of the next local day.     *)
(***************************************************************************)
RawDueTomorrow == <<[date |-> <<(<<Ymd(ThisDay + 1)>>)>>, datetime |-> <<>>]>>

PipelineItems(id) ==
    {SyncItem(id, ProjectA, NullOf(None), parent, <<>>, <<>>, <<>>, ord, due) :
        parent \in {NullOf(NoId), Val(1)},
        ord \in {<<>>, <<1>>},
        due \in {RawDueToday, RawDueTomorrow}}

PipelineOptions ==
    [token : {<<"token">>}, projectId : {None}, sectionId : {None},
     filter : {None, Some(<<"today">>), Some(<<"tomorrow">>),
               Some(<<"today", " ", "|", " ", "overdue">>)},
     includeCompleted : {FALSE}]

LastTick == (ThisDay + 2) * TicksPerDay - 1

\* map the items, select and sort the tasks, build the forest
Pipeline(its, opts, clk) ==
    LET res == Response(OkStatus, <<[items |-> <<its>>, text |-> <<"{...}">>]>>)
        got == FetchTasks(res, opts, clk)
        r   == BuildTaskTree(got.tasks)
    IN  [tasks |-> got.tasks, roots |-> r.roots, nodes |-> r.nodes]

AddPipelineItem ==
    /\ pc = "input"
    /\ Len(items) < MaxItems
    /\ \E it \in PipelineItems(Len(items) + 1) : items' = Append(items, it)
    /\ UNCHANGED <<pc, tasks, roots, nodes, filter, now, filtered, source,
                   query, settings, fetchCalls, container, ui, steps,
                   host>>

\* the first run
RunPipeline ==
    /\ pc = "input"
    /\ \E opts \in PipelineOptions :
          LET p == Pipeline(items, opts, now)
          IN  /\ fetchCalls' = <<opts>>
              /\ tasks' = p.tasks
              /\ roots' = p.roots
              /\ nodes' = p.nodes
    /\ pc' = "fetched"
    /\ UNCHANGED <<filter, now, filtered, source, query, settings, container,
                   items, ui, steps,
                   host>>

\* time passes between the two runs
TickBetweenRuns ==
    /\ pc = "fetched"
    /\ now < LastTick
    /\ now' = now + 1
    /\ UNCHANGED <<pc, tasks, roots, nodes, filter, filtered, source, query,
                   settings, fetchCalls, container, items, ui, steps,
                   host>>

\* the second run, on the same items with the same options
RunPipelineAgain ==
    /\ pc = "fetched"
    /\ LET p == Pipeline(items, fetchCalls[1], now)
       IN  /\ tasks' = p.tasks
           /\ roots' = p.roots
           /\ nodes' = p.nodes
    /\ pc' = "again"
    /\ UNCHANGED <<filter, now, filtered, source, query, settings, fetchCalls,
                   container, items, ui, steps,
                   host>>

NextPipeline ==
    AddPipelineItem \/ RunPipeline \/ TickBetweenRuns \/ RunPipelineAgain

SpecPipeline == InitFetch /\ [][NextPipeline]_vars

(***************************************************************************)
(* applyFilter step by step.  Every call of isToday, isOverdue and         *)
(* isTomorrow reads the clock with its own new Date() (lines 127, 136,     *)
(* 145), so one step is one call of the callback of parts.some or          *)
(* parts.every on one part, and the clock may advance between two steps.   *)
(***************************************************************************)
ClockExprs ==
    {<<"today">>, Join(<<"today">>, "&", <<"overdue">>),
     Join(<<"today">>, "|", <<"tomorrow">>),
     Join(<<"overdue">>, "|", <<"today">>), <<"#Work">>}

ClockDues == {NoDue} \cup {Due(<<Ymd(d)>>, <<>>) : d \in DueDays}

\* the branch applyFilter takes: the parts, and whether all of them or one
\* of them must match; no branch for an expression it does not know
FilterBranch(filterLower) ==
    IF filterLower \in {<<"today">>, <<"overdue">>, <<"tomorrow">>}
    THEN <<[parts |-> <<filterLower>>, every |-> FALSE]>>
    ELSE IF Includes(filterLower, "|")
    THEN <<[parts |-> Parts(filterLower, "|"), every |-> FALSE]>>
    ELSE IF Includes(filterLower, "&")
    THEN <<[parts |-> Parts(filterLower, "&"), every |-> TRUE]>>
    ELSE <<>>

InitClock ==
    /\ pc = "input"
    /\ tasks = <<>>
    /\ roots = <<>>
    /\ nodes = <<>>
    /\ filter \in ClockExprs
    /\ now \in ClockValues
    /\ filtered = <<>>
    /\ source = <<>>
    /\ query = NoQuery
    /\ settings = <<>>
    /\ fetchCalls = <<>>
    /\ container = <<>>
    /\ items = <<>>
    /\ IdleUi
    /\ IdleSteps
    /\ IdleHost

AddClockTask ==
    /\ pc = "input"
    /\ Len(tasks) < MaxFilterTasks
    /\ \E due \in ClockDues :
          tasks' = Append(tasks, Task(Len(tasks) + 1, 0, NoId, due))
    /\ UNCHANGED <<pc, roots, nodes, filter, now, filtered, source, query,
                   settings, fetchCalls, container, items, ui, steps, host>>

\* applyFilter is called: cursor holds the task and the part that come
\* next, and the clock at the time of the call
CallApplyFilter ==
    /\ pc = "input"
    /\ pc' = "filtering"
    /\ cursor' = <<[i |-> 1, k |-> 1, start |-> now]>>
    /\ filtered' = <<>>
    /\ UNCHANGED <<tasks, roots, nodes, filter, now, source, query, settings,
                   fetchCalls, container, items, ui, stack, visits, host>>

\* the clock advances while applyFilter runs
ClockTick ==
    /\ pc = "filtering"
    /\ now < LastTick
    /\ now' = now + 1
    /\ UNCHANGED <<pc, tasks, roots, nodes, filter, filtered, source, query,
                   settings, fetchCalls, container, items, ui, steps, host>>

\* the callback of tasks.filter on task i, up to and including the test of
\* part k, which reads the clock
TestPart ==
    /\ pc = "filtering"
    /\ FilterBranch(ToLowerCase(Trim(filter))) # <<>>
    /\ cursor[1].i <= Len(tasks)
    /\ LET br      == FilterBranch(ToLowerCase(Trim(filter)))[1]
           i       == cursor[1].i
           k       == cursor[1].k
           dueDate == ParseDueDate(tasks[i])
           last    == k = Len(br.parts)
           keep    == /\ filtered' = Append(filtered, tasks[i])
                      /\ cursor' = <<[cursor[1] EXCEPT !.i = i + 1, !.k = 1]>>
           drop    == /\ filtered' = filtered
                      /\ cursor' = <<[cursor[1] EXCEPT !.i = i + 1, !.k = 1]>>
           more    == /\ filtered' = filtered
                      /\ cursor' = <<[cursor[1] EXCEPT !.k = k + 1]>>
       IN  IF dueDate = Null THEN drop
           ELSE IF MatchPart(br.parts[k], dueDate[1], now)
           THEN (IF br.every /\ ~last THEN more ELSE keep)
           ELSE (IF ~br.every /\ ~last THEN more ELSE drop)
    /\ UNCHANGED <<pc, tasks, roots, nodes, filter, now, source, query,
                   settings, fetchCalls, container, items, ui, stack, visits,
                   host>>

\* applyFilter returns: the tasks kept, or all tasks for an expression it
\* does not know
ReturnFiltered ==
    /\ pc = "filtering"
    /\ IF FilterBranch(ToLowerCase(Trim(filter))) = <<>>
       THEN filtered' = NoKnownPattern(tasks)
       ELSE cursor[1].i > Len(tasks) /\ filtered' = filtered
    /\ pc' = "filtered"
    /\ UNCHANGED <<tasks, roots, nodes, filter, now, source, query, settings,
                   fetchCalls, container, items, ui, steps, host>>

NextClock ==
    AddClockTask \/ CallApplyFilter \/ ClockTick \/ TestPart \/ ReturnFiltered

SpecClock == InitClock /\ [][NextClock]_vars

(***************************************************************************)
(* The plugin with one todoist block: the settings tab changes the         *)
(* settings, the block is rendered (on load, by the refresh timer, by its  *)
(* refresh button), the Sync API answers, and the user changes the         *)
(* checkbox of a task line.                                                *)
(***************************************************************************)
MaxRenders == 2        \* fetchTasks calls of one run
MaxToggles == 2        \* checkbox changes of one run

BlockSources ==
    {<<>>, <<" ">>, <<"123">>, <<"today">>, <<"#Work">>,
     <<"project", ":", "123">>, <<"section", ":", "123">>,
     <<"section", " ", "123">>, <<"filter", ":", "today">>,
     <<"filter", " ", "\"", "today", "\"">>,
     <<"today", " ", "|", " ", "overdue">>,
     <<"project", ":", "123", "\n", "today">>}

ApiTokens == {<<>>, <<" ">>, <<"token">>}
DefaultValues ==
    {<<>>, <<" ">>, <<"123">>, <<" ", "123", " ">>, <<"today">>,
     <<"123", "today">>, <<"123", " ", "123">>}

Init ==
    /\ pc = "loaded"
    /\ tasks = <<>>
    /\ roots = <<>>
    /\ nodes = <<>>
    /\ filter = <<>>
    /\ now = ThisDay * TicksPerDay
    /\ filtered = <<>>
    /\ source \in BlockSources
    /\ query = NoQuery
    /\ settings = DEFAULT_SETTINGS
    /\ fetchCalls = <<>>
    /\ container = <<>>
    /\ items = <<>>
    /\ IdleUi
    /\ IdleSteps
    /\ LoadedHost

\* the settings tab's onChange handlers
SetApiToken ==
    /\ \E v \in ApiTokens : settings' = [settings EXCEPT !.apiToken = v]
    /\ UNCHANGED <<pc, tasks, roots, nodes, filter, now, filtered, source,
                   query, fetchCalls, container, items, ui, steps,
                   host>>

SetDefaultProjectOrFilter ==
    /\ \E v \in DefaultValues :
          settings' = [settings EXCEPT !.defaultProjectOrFilter = v]
    /\ UNCHANGED <<pc, tasks, roots, nodes, filter, now, filtered, source,
                   query, fetchCalls, container, items, ui, steps,
                   host>>

SetShowCompletedTasks ==
    /\ \E v \in BOOLEAN :
          settings' = [settings EXCEPT !.showCompletedTasks = v]
    /\ UNCHANGED <<pc, tasks, roots, nodes, filter, now, filtered, source,
                   query, fetchCalls, container, items, ui, steps,
                   host>>

\* a request to the Sync API that awaits its response
\* call: the place of the fetchTasks call among the calls of the block
FetchRequest(opts, call) ==
    [type |-> "fetch", opts |-> <<opts>>, id |-> NoId, call |-> call]

\* the command of closeTask, whatever the checkbox's state
CommandRequestClose(type, id) ==
    [type |-> "item_complete", opts |-> <<>>, id |-> id, call |-> 0]

CommandRequest(type, id) ==
    [type |-> type, opts |-> <<>>, id |-> id, call |-> 0]

Remove(s, i) == SubSeq(s, 1, i - 1) \o SubSeq(s, i + 1, Len(s))

\* what the block shows above the task list: the refresh and add buttons
Header == <<"[refresh]", "[add task]">>

\* the responses of the Sync API to a read of the items
BlockItems ==
    <<SyncItem(1, ProjectA, NullOf(None), NullOf(NoId), <<>>, <<>>, <<1>>,
               <<>>, RawDueToday),
      SyncItem(2, ProjectA, NullOf(None), Val(1), <<>>, <<TRUE>>, <<>>, <<>>,
               <<>>)>>

FetchResponses ==
    {Response(OkStatus, <<[items |-> <<BlockItems>>, text |-> <<"{items}">>]>>),
     Response(OkStatus, <<[items |-> <<>>, text |-> <<"{}">>]>>),
     Response(OkStatus, <<>>),
     Response(401, <<[items |-> <<>>, text |-> <<"{error}">>]>>),
     Response(500, <<>>)}

\* the responses of the Sync API to a command
CommandResponses ==
    {Response(OkStatus, <<[sync |-> st, text |-> <<"{sync_status}">>]>>) :
        st \in {SyncOk, SyncMissing, SyncOther, SyncObject(<<>>),
                SyncObject(<<"Invalid item">>)}}
    \cup {Response(OkStatus, <<>>), Response(500, <<>>),
          Response(401, <<[sync |-> SyncMissing, text |-> <<"{error}">>]>>)}

\* render() up to its await of fetchTasks (lines 116-140); pending is what
\* is in flight when it is called
StartRender(pending) ==
    IF Trim(settings.apiToken) = <<>>
    THEN /\ container' = TokenMessage
         /\ lines' = <<>>
         /\ shown' = 0
         /\ inflight' = pending
         /\ UNCHANGED <<query, fetchCalls>>
    ELSE /\ query' = ParseTodoistQuery(source)
         /\ fetchCalls' = Append(fetchCalls, RenderOptions(source, settings))
         /\ inflight' =
                Append(pending, FetchRequest(RenderOptions(source, settings),
                                             Len(fetchCalls) + 1))
         /\ UNCHANGED <<container, lines, shown>>

\* the model has room for the fetchTasks call of one more render
CanRender == Trim(settings.apiToken) # <<>> => Len(fetchCalls) < MaxRenders

\* render(), called on load, by the refresh timer or by the refresh button
Render ==
    /\ CanRender
    /\ StartRender(inflight)
    /\ UNCHANGED <<pc, tasks, roots, nodes, filter, now, filtered, source,
                   settings, items, toggleCalls, notices, steps, life>>

\* render() from the response res to the fetchTasks call in flight at i
\* (lines 141-171): the task list, or the message of the catch block
FetchResponseOf(i, res) ==
    /\ inflight[i].type = "fetch"
    /\ LET got == FetchTasks(res, inflight[i].opts[1], now)
           r   == BuildTaskTree(got.tasks)
       IN  IF got.rejected
           THEN /\ container' = <<"Todoist: ">> \o got.message
                /\ lines' = <<>>
                /\ UNCHANGED <<tasks, roots, nodes>>
           ELSE /\ tasks' = got.tasks
                /\ roots' = r.roots
                /\ nodes' = r.nodes
                /\ container' = Header
                /\ lines' = RenderTaskTree(r.roots, r.nodes, ById(got.tasks),
                                           settings.showCompletedTasks)
    /\ shown' = inflight[i].call
    /\ inflight' = Remove(inflight, i)
    /\ UNCHANGED <<pc, filter, now, filtered, source, query, settings,
                   fetchCalls, items, toggleCalls, notices, steps, life>>

FetchResponse ==
    \E i \in 1..Len(inflight), res \in FetchResponses : FetchResponseOf(i, res)

\* onToggle(task.id, task.is_completed): the state the line was drawn with
ChangeEventOldState(line) == [taskId |-> line.id, completed |-> line.checked]

\* the change listener of a line's checkbox (renderer.ts line 61), the
\* browser having flipped input.checked: onToggle(task.id, input.checked)
ChangeEvent(line) == [taskId |-> line.id, completed |-> ~line.checked]

\* the user changes the checkbox of line i; onToggle is handleToggle
\* (lines 174-183), which sends the command unless the token is missing
ChangeCheckboxOf(i) ==
    /\ Len(toggleCalls) < MaxToggles
    /\ LET call == ChangeEvent(lines[i])
       IN  /\ lines' = [lines EXCEPT ![i].checked = ~lines[i].checked]
           /\ toggleCalls' = Append(toggleCalls, call)
           /\ inflight' =
                  IF Trim(settings.apiToken) = <<>> THEN inflight
                  ELSE Append(inflight,
                              CommandRequest(IF call.completed
                                             THEN "item_complete"
                                             ELSE "item_uncomplete",
                                             call.taskId))
    /\ UNCHANGED <<pc, tasks, roots, nodes, filter, now, filtered, source,
                   query, settings, fetchCalls, container, items, notices,
                   steps, host>>

ChangeCheckbox == \E i \in 1..Len(lines) : ChangeCheckboxOf(i)

\* handleToggle from the response res to the command in flight at i
\* (lines 180-190): the Notice, then render()
CommandResponseOf(i, res) ==
    /\ inflight[i].type # "fetch"
    /\ CanRender
    /\ LET close == inflight[i].type = "item_complete"
           done  == IF close THEN CloseTask(res) ELSE ReopenTask(res)
       IN  notices' =
               IF done.rejected THEN <<"Todoist: ">> \o done.message
               ELSE IF close THEN <<"Task completed">>
               ELSE <<"Task reopened">>
    /\ StartRender(Remove(inflight, i))
    /\ UNCHANGED <<pc, tasks, roots, nodes, filter, now, filtered, source,
                   settings, items, toggleCalls, steps, life>>

CommandResponse ==
    \E i \in 1..Len(inflight), res \in CommandResponses :
        CommandResponseOf(i, res)

\* the settings and the calls of fetchTasks that render makes
Next ==
    \/ SetApiToken
    \/ SetDefaultProjectOrFilter
    \/ SetShowCompletedTasks
    \/ Render

Spec == Init /\ [][Next]_vars

\* a block of a plugin whose token is set: renders, responses, checkboxes
BlockContents == {<<>>, <<"today">>, <<"project", ":", "456">>}

InitBlock ==
    /\ pc = "loaded"
    /\ tasks = <<>>
    /\ roots = <<>>
    /\ nodes = <<>>
    /\ filter = <<>>
    /\ now = ThisDay * TicksPerDay
    /\ filtered = <<>>
    /\ source \in BlockContents
    /\ query = NoQuery
    /\ \E show \in BOOLEAN :
          settings = [DEFAULT_SETTINGS EXCEPT !.apiToken = <<"token">>,
                                              !.showCompletedTasks = show]
    /\ fetchCalls = <<>>
    /\ container = <<>>
    /\ items = <<>>
    /\ IdleUi
    /\ IdleSteps
    /\ LoadedHost

NextBlock ==
    \/ SetApiToken
    \/ Render
    \/ FetchResponse
    \/ ChangeCheckbox
    \/ CommandResponse

SpecBlock == InitBlock /\ [][NextBlock]_vars

(***************************************************************************)
(* The life cycle of the plugin and of one todoist block (main.ts): the    *)
(* plugin's onload and onunload, the refresh interval's onChange handler   *)
(* with its await of saveSettings, the interval timers and their ticks,    *)
(* the block's creation by the code block processor and its onunload, and  *)
(* the responses to the block's fetchTasks calls.  pc is the plugin: new,  *)
(* loading (onload awaits loadSettings), loaded or unloaded.               *)
(***************************************************************************)
MaxTimers == 3         \* setInterval calls of one run

\* what the user types into the refresh interval field, as parseInt reads
\* it: NaN is <<>>
IntervalInputs == {<<>>, <<0>>, <<-3>>, <<5>>}

\* Math.max(1, parseInt(v, 10) || DEFAULT_SETTINGS.refreshIntervalMinutes)
IntervalOf(v) ==
    LET n == IF v = <<>> \/ v = <<0>>
             THEN DEFAULT_SETTINGS.refreshIntervalMinutes
             ELSE v[1]
    IN  IF n < 1 THEN 1 ELSE n

\* clearInterval(id)
ClearInterval(ts, id) == {t \in ts : t.id # id}

\* resetRefreshInterval: the new refreshIntervalId and the timers after it;
\* setInterval returns an id that was not used before
ResetRefreshInterval(ts, id, mins) ==
    LET cleared == IF id # NoTimer THEN ClearInterval(ts, id) ELSE ts
    IN  [id |-> id + 1,
         timers |-> cleared \cup {[id |-> id + 1,
                                   mins |-> IF mins < 1 THEN 1 ELSE mins]}]

InitLife ==
    /\ pc = "new"
    /\ tasks = <<>>
    /\ roots = <<>>
    /\ nodes = <<>>
    /\ filter = <<>>
    /\ now = ThisDay * TicksPerDay
    /\ filtered = <<>>
    /\ source = <<>>
    /\ query = NoQuery
    /\ settings = [DEFAULT_SETTINGS EXCEPT !.apiToken = <<"token">>]
    /\ fetchCalls = <<>>
    /\ container = <<>>
    /\ items = <<>>
    /\ IdleUi
    /\ IdleSteps
    /\ IdleHost

\* onload up to its await of loadSettings
StartOnload ==
    /\ pc = "new"
    /\ pc' = "loading"
    /\ UNCHANGED <<tasks, roots, nodes, filter, now, filtered, source, query,
                   settings, fetchCalls, container, items, ui, steps, host>>

\* onload after the await: the settings tab and the code block processor
\* are registered, resetRefreshInterval()
FinishOnload ==
    /\ pc = "loading"
    /\ pc' = "loaded"
    /\ LET r == ResetRefreshInterval(timers, refreshIntervalId,
                                     settings.refreshIntervalMinutes)
       IN  refreshIntervalId' = r.id /\ timers' = r.timers
    /\ UNCHANGED <<tasks, roots, nodes, filter, now, filtered, source, query,
                   settings, fetchCalls, container, items, ui, steps, shown,
                   awaiting, blockRenderers, block>>

\* the refresh interval's onChange up to its await of saveSettings
ChangeRefreshInterval ==
    /\ pc = "loaded"
    /\ refreshIntervalId + awaiting < MaxTimers
    /\ \E v \in IntervalInputs :
          settings' = [settings EXCEPT !.refreshIntervalMinutes = IntervalOf(v)]
    /\ awaiting' = awaiting + 1
    /\ UNCHANGED <<pc, tasks, roots, nodes, filter, now, filtered, source,
                   query, fetchCalls, container, items, ui, steps, shown,
                   refreshIntervalId, timers, blockRenderers, block>>

\* the onChange after its await: resetRefreshInterval()
FinishChange ==
    /\ awaiting > 0
    /\ awaiting' = awaiting - 1
    /\ LET r == ResetRefreshInterval(timers, refreshIntervalId,
                                     settings.refreshIntervalMinutes)
       IN  refreshIntervalId' = r.id /\ timers' = r.timers
    /\ UNCHANGED <<pc, tasks, roots, nodes, filter, now, filtered, source,
                   query, settings, fetchCalls, container, items, ui, steps,
                   shown, blockRenderers, block>>

\* the plugin's onunload
PluginOnunload ==
    /\ pc = "loaded"
    /\ pc' = "unloaded"
    /\ blockRenderers' = {}
    /\ timers' = IF refreshIntervalId # NoTimer
                 THEN ClearInterval(timers, refreshIntervalId)
                 ELSE timers
    /\ UNCHANGED <<tasks, roots, nodes, filter, now, filtered, source, query,
                   settings, fetchCalls, container, items, ui, steps, shown,
                   awaiting, refreshIntervalId, block>>

\* the code block processor: the block renderer is made and loaded (its
\* onload calls render()), then added to blockRenderers
CreateBlock ==
    /\ pc = "loaded"
    /\ block = "none"
    /\ CanRender
    /\ block' = "loaded"
    /\ StartRender(inflight)
    /\ blockRenderers' = blockRenderers \cup {1}
    /\ UNCHANGED <<pc, tasks, roots, nodes, filter, now, filtered, source,
                   settings, items, toggleCalls, notices, steps, awaiting,
                   refreshIntervalId, timers>>

\* the block renderer's onunload
BlockOnunload ==
    /\ block = "loaded"
    /\ block' = "unloaded"
    /\ blockRenderers' = blockRenderers \ {1}
    /\ UNCHANGED <<pc, tasks, roots, nodes, filter, now, filtered, source,
                   query, settings, fetchCalls, container, items, ui, steps,
                   shown, awaiting, refreshIntervalId, timers>>

\* a timer that is active fires: blockRenderers.forEach((r) => r.render())
TickOf(t) ==
    /\ t \in timers
    /\ CanRender
    /\ IF 1 \in blockRenderers
       THEN StartRender(inflight)
       ELSE UNCHANGED <<query, fetchCalls, container, lines, inflight, shown>>
    /\ UNCHANGED <<pc, tasks, roots, nodes, filter, now, filtered, source,
                   settings, items, toggleCalls, notices, steps, life>>

Tick == \E t \in timers : TickOf(t)

\* the refresh button of the block's header
ClickRefresh ==
    /\ block = "loaded"
    /\ container = Header
    /\ CanRender
    /\ StartRender(inflight)
    /\ UNCHANGED <<pc, tasks, roots, nodes, filter, now, filtered, source,
                   settings, items, toggleCalls, notices, steps, life>>

NextLife ==
    \/ StartOnload
    \/ FinishOnload
    \/ ChangeRefreshInterval
    \/ FinishChange
    \/ PluginOnunload
    \/ CreateBlock
    \/ BlockOnunload
    \/ Tick
    \/ ClickRefresh
    \/ FetchResponse

SpecLife == InitLife /\ [][NextLife]_vars

(***************************************************************************)
(* Claims about buildTaskTree.                                             *)
(***************************************************************************)
TaskIds == {tasks[k].id : k \in 1..Len(tasks)}

\* the parent_id references of the collection lead, from every task, to a
\* task without parent in the collection: no task is its own ancestor
RECURSIVE ReachesRoot(_, _, _)
ReachesRoot(i, byId, fuel) ==
    IF i \notin DOMAIN byId THEN TRUE
    ELSE IF fuel = 0 THEN FALSE
    ELSE ReachesRoot(byId[i].parent_id, byId, fuel - 1)

Acyclic(ts) ==
    \A k \in 1..Len(ts) : ReachesRoot(ts[k].id, ById(ts), Len(ts))

\* the returned forest holds exactly one node per task of the collection
OneNodePerTask ==
    LET forest == ForestIds(roots, nodes)
    IN  /\ Len(forest) = Len(tasks)
        /\ \A i \in TaskIds : Occurrences(forest, i) = 1

\* C1 as stated: for EVERY task collection the forest returned by
\* buildTaskTree holds exactly one node per input task and as many nodes as
\* there are input tasks.
C1_EveryCollection == pc = "built" => OneNodePerTask

\* C1 amended: for every task collection whose parent_id references hold no
\* cycle (ids unique), the forest returned by buildTaskTree holds exactly one
\* node per input task and as many nodes as there are input tasks.
C1_AcyclicCollection == (pc = "built" /\ Acyclic(tasks)) => OneNodePerTask

C1_Witness ==
    /\ pc = "built"
    /\ Acyclic(tasks)
    /\ Len(tasks) = MaxTasks
    /\ \E k \in 1..Len(tasks) : tasks[k].parent_id \in TaskIds
    /\ \E k \in 1..Len(tasks) : tasks[k].parent_id \notin TaskIds \cup {NoId}
    /\ Len(roots) = 2

\* C2: a task is a root exactly when its parent_id is absent or names no task
\* of the collection; every other task is a child of the node of the task its
\* parent_id names, once, and of no other node: no task is left unattached.
C2_RootsAndChildren ==
    pc = "built" =>
        \A k \in 1..Len(tasks) :
            LET t == tasks[k]
                isRoot == t.parent_id = NoId \/ t.parent_id \notin TaskIds
            IN  /\ Occurrences(roots, t.id) = (IF isRoot THEN 1 ELSE 0)
                /\ \A n \in TaskIds :
                      Occurrences(nodes[n], t.id) =
                          (IF ~isRoot /\ n = t.parent_id THEN 1 ELSE 0)

C2_Witness ==
    /\ pc = "built"
    /\ \E k \in 1..Len(tasks) : tasks[k].parent_id = NoId
    /\ \E k \in 1..Len(tasks) :
          tasks[k].parent_id \notin TaskIds \cup {NoId} /\ tasks[k].id \in Range(roots)
    /\ \E k \in 1..Len(tasks) :
          /\ tasks[k].parent_id \in TaskIds
          /\ tasks[k].id \in Range(nodes[tasks[k].parent_id])

\* position of a task in the input collection
Pos(i) == CHOOSE k \in 1..Len(tasks) : tasks[k].id = i
OrderOf(i) == tasks[Pos(i)].order

SortedStable(xs) ==
    \A a, b \in 1..Len(xs) :
        a < b =>
            \/ OrderOf(xs[a]) < OrderOf(xs[b])
            \/ OrderOf(xs[a]) = OrderOf(xs[b]) /\ Pos(xs[a]) < Pos(xs[b])

\* C3: the roots, and the children of every node of the returned forest at
\* every depth, are in ascending order, and nodes of equal order keep the
\* relative order they had in the input collection.
C3_SortedAtEveryDepth ==
    pc = "built" =>
        /\ SortedStable(roots)
        /\ \A n \in Range(ForestIds(roots, nodes)) : SortedStable(nodes[n])

\* a grandchild list that the input gives out of order, and a tie
C3_Witness ==
    /\ pc = "built"
    /\ \E r \in Range(roots) : \E c \in Range(nodes[r]) :
          /\ Len(nodes[c]) = 2
          /\ Pos(nodes[c][1]) > Pos(nodes[c][2])
    /\ \E k \in 1..Len(tasks) : tasks[k].order = tasks[1].order /\ k > 1

(***************************************************************************)
(* Claims about applyFilter.                                               *)
(***************************************************************************)
\* the due day of a task as the specification resolves it: the time-bearing
\* field if there is one, else the date field; the day before any T; <<>>
\* when that is no calendar day
DueDayOf(t) ==
    IF t.due = NoDue THEN <<>>
    ELSE LET due == t.due[1]
             str == IF due.datetime # <<>> /\ due.datetime[1] # <<>>
                    THEN due.datetime[1] ELSE due.date
         IN  IF /\ str # <<>>
                /\ str[1].c = "YYYY-MM-DD"
                /\ str[1].n # NoDay
                /\ (Len(str) = 1 \/ str[2] = TSep)
             THEN <<str[1].n>>
             ELSE <<>>

\* the current local day
CurrentDay == now \div TicksPerDay

DueToday(t)    == DueDayOf(t) = <<CurrentDay>>
DueBefore(t)   == DueDayOf(t) # <<>> /\ DueDayOf(t)[1] < CurrentDay
DueTomorrow(t) == DueDayOf(t) = <<CurrentDay + 1>>

\* the expression as applyFilter reads it
Expr == ToLowerCase(Trim(filter))

Recognised == {<<"today">>, <<"overdue">>, <<"tomorrow">>}

Satisfies(t, part) ==
    \/ part = <<"today">> /\ DueToday(t)
    \/ part = <<"overdue">> /\ DueBefore(t)
    \/ part = <<"tomorrow">> /\ DueTomorrow(t)

\* C5: when the expression is a date filter (today, overdue, tomorrow, or any
\* expression with | or &), no task without a resolvable due date is in the
\* result.
C5_UndatedExcluded ==
    (/\ pc = "filtered"
     /\ (Expr \in Recognised \/ Includes(Expr, "|") \/ Includes(Expr, "&")))
    => \A i \in 1..Len(filtered) : DueDayOf(filtered[i]) # <<>>

C5_Witness ==
    /\ pc = "filtered"
    /\ Includes(Expr, "|")
    /\ Len(tasks) = 2
    /\ DueDayOf(tasks[1]) = <<>>
    /\ filtered = <<tasks[2]>>

\* C6: on local day D, "today" returns exactly the tasks due on D, "overdue"
\* those due before D and "tomorrow" those due on D + 1, in input order; the
\* expression is read trimmed and in lower case, and the time of day of a due
\* value plays no part.
C6_AtomicPredicates ==
    pc = "filtered" =>
        /\ Expr = <<"today">> => filtered = SelectSeq(tasks, DueToday)
        /\ Expr = <<"overdue">> => filtered = SelectSeq(tasks, DueBefore)
        /\ Expr = <<"tomorrow">> => filtered = SelectSeq(tasks, DueTomorrow)

C6_Witness ==
    /\ pc = "filtered"
    /\ filter = <<" ", "Tomorrow", " ">>
    /\ Len(tasks) = 2
    /\ tasks[1].due = Due(<<>>, <<DateTimeStr(ThisDay + 1)>>)
    /\ tasks[2].due = Due(<<Ymd(ThisDay)>>, <<>>)
    /\ filtered = <<tasks[1]>>

\* the tasks of ts that are in a or in b, in the order of ts
UnionOf(ts, a, b) ==
    LET in(t) == t \in Range(a) \cup Range(b) IN SelectSeq(ts, in)

BothOf(ts, a, b) ==
    LET in(t) == t \in Range(a) \cap Range(b) IN SelectSeq(ts, in)

\* C7: an expression with | returns the tasks that satisfy at least one
\* recognised part (no other part ever matches); "today | overdue" returns
\* the union of the results of "today" and of "overdue".
C7_OrIsUnion ==
    (pc = "filtered" /\ Includes(Expr, "|")) =>
        LET parts == Parts(Expr, "|")
            some(t) == \E i \in 1..Len(parts) : Satisfies(t, parts[i])
        IN  /\ filtered = SelectSeq(tasks, some)
            /\ \A a, b \in Recognised :
                  Expr = Join(a, "|", b) =>
                      filtered = UnionOf(tasks, ApplyFilter(tasks, a, now),
                                                ApplyFilter(tasks, b, now))

C7_Witness ==
    /\ pc = "filtered"
    /\ filter = Join(<<"today">>, "|", <<"overdue">>)
    /\ Len(tasks) = 2
    /\ DueBefore(tasks[1])
    /\ DueToday(tasks[2])
    /\ filtered = tasks

\* C8: for recognised predicates A and B, "A & B" returns the tasks that are
\* in the result of A and in the result of B.
C8_AndIsIntersection ==
    pc = "filtered" =>
        \A a, b \in Recognised :
            Expr = Join(a, "&", b) =>
                filtered = BothOf(tasks, ApplyFilter(tasks, a, now),
                                         ApplyFilter(tasks, b, now))

C8_Witness ==
    /\ pc = "filtered"
    /\ filter = Join(<<"today">>, "&", <<"overdue">>)
    /\ Len(tasks) = 2
    /\ DueToday(tasks[1])
    /\ DueBefore(tasks[2])
    /\ filtered = <<>>

\* C9 as stated: every expression that is not today / overdue / tomorrow and
\* names no recognised predicate is returned the input unchanged.
C9_UnrecognisedUnchanged ==
    (/\ pc = "filtered"
     /\ \A i \in 1..Len(Expr) : <<Expr[i]>> \notin Recognised)
    => filtered = tasks

\* C9 amended: every expression that, trimmed and in lower case, is not
\* today / overdue / tomorrow and contains neither | nor & is returned the
\* input unchanged (same tasks, same order).
C9_NoOperatorUnchanged ==
    (/\ pc = "filtered"
     /\ Expr \notin Recognised
     /\ ~Includes(Expr, "|")
     /\ ~Includes(Expr, "&"))
    => filtered = tasks

C9_Witness ==
    /\ pc = "filtered"
    /\ filter = <<"#Work">>
    /\ Len(tasks) = 2
    /\ DueDayOf(tasks[1]) = <<>>
    /\ DueToday(tasks[2])
    /\ filtered = tasks

(***************************************************************************)
(* Claims about render and parseTodoistQuery.                              *)
(***************************************************************************)
\* C4: the default project / filter of the settings is used only when the
\* parsed query is empty: for a block whose query sets projectId, sectionId
\* or filter, fetchTasks is handed exactly that one field.
C4_DefaultOnlyForEmptyQuery ==
    \A i \in 1..Len(fetchCalls) :
        LET q == ParseTodoistQuery(source)
        IN  q # NoQuery =>
                /\ fetchCalls[i].projectId = q.projectId
                /\ fetchCalls[i].sectionId = q.sectionId
                /\ fetchCalls[i].filter = q.filter

\* X without the pair of equal quotes around it, if there is one
Unquote(x) ==
    IF Len(x) >= 2 /\ IsQuote(x[1]) /\ x[Len(x)] = x[1]
    THEN SubSeq(x, 2, Len(x) - 1) ELSE x

\* the value X of an input filter:X or filter X: one line, either without
\* any quote or within one pair of equal quotes; <<>> for any other input
FilterFormValue(src) ==
    IF /\ Len(src) >= 3
       /\ LowerTok(src[1]) = "filter"
       /\ src[2] \in {":", " "}
    THEN LET r == Trim(Drop(src, 2))
             x == Trim(Unquote(r))
         IN  IF /\ r # <<>>
                /\ r[1] # ":"
                /\ \A i \in 1..Len(src) : src[i] # "\n"
                /\ \A i \in 1..Len(x) : ~IsQuote(x[i])
             THEN x ELSE <<>>
    ELSE <<>>

\* C10: for every input filter:X or filter X (the keyword in any case) the
\* query is {filter: X}, X running to the end of the line and without the
\* quotes around it.
C10_FilterForm ==
    (pc = "parsed" /\ FilterFormValue(source) # <<>>) =>
        query = [NoQuery EXCEPT !.filter = Some(FilterFormValue(source))]

\* the token N of an input  keyword:N  or  keyword N  (blanks allowed around
\* the colon and after N; a colon after the keyword makes it the colon form):
\* one word without white space; <<>> for any other input
WordFormValue(src, keyword) ==
    IF /\ Len(src) >= 3
       /\ LowerTok(src[1]) = keyword
       /\ src[2] \in {":", " "}
    THEN LET r == TrimStart(Drop(src, 1))
             n == Trim(IF r # <<>> /\ r[1] = ":" THEN Drop(r, 1) ELSE r)
         IN  IF \A i \in 1..Len(n) : ~IsSpace(n[i])
             THEN n ELSE <<>>
    ELSE <<>>

\* C11: for every input project:N or project N (the keyword in any case) and
\* for every line of digits N the query is {projectId: N}; for every input
\* section:N or section N it is {sectionId: N}; N is the one word after the
\* keyword.
C11_ProjectAndSectionForms ==
    pc = "parsed" =>
        /\ WordFormValue(source, "project") # <<>> =>
               query = [NoQuery EXCEPT
                            !.projectId = Some(WordFormValue(source, "project"))]
        /\ WordFormValue(source, "section") # <<>> =>
               query = [NoQuery EXCEPT
                            !.sectionId = Some(WordFormValue(source, "section"))]
        /\ IsDigits(Trim(source)) =>
               query = [NoQuery EXCEPT !.projectId = Some(Trim(source))]

C11_Witness ==
    /\ pc = "parsed"
    /\ source = <<"SECTION", " ", "123", "today", " ">>
    /\ query.sectionId = Some(<<"123", "today">>)

\* the trimmed input begins with keyword: or keyword and white space, and
\* something follows (the keyword in any case)
KeywordForm(src, keyword) ==
    LET line == Trim(src)
    IN  /\ Len(line) >= 3
        /\ LowerTok(line[1]) = keyword
        /\ line[2] \in {":", " ", "\n"}

\* a Query: each field absent or a string
IsQuery(q) ==
    /\ DOMAIN q = {"projectId", "sectionId", "filter"}
    /\ \A f \in DOMAIN q : q[f] = None \/ Len(q[f]) = 1

\* C12: for every input that is not blank, has none of the forms filter,
\* project, section and is no line of digits, the query is {filter: the
\* trimmed input} with no other field; parsing yields a Query for every input.
C12_OtherInputIsFilter ==
    pc = "parsed" =>
        /\ IsQuery(query)
        /\ ( /\ Trim(source) # <<>>
             /\ \A kw \in {"filter", "project", "section"} :
                    ~KeywordForm(source, kw)
             /\ ~IsDigits(Trim(source)) )
           => query = [NoQuery EXCEPT !.filter = Some(Trim(source))]

C12_Witness ==
    /\ pc = "parsed"
    /\ source = <<" ", "123", "|", "today", "\n">>
    /\ query = [NoQuery EXCEPT !.filter = Some(<<"123", "|", "today">>)]

SetFields(q) == {f \in DOMAIN q : q[f] # None}

\* C13: for every input the query has at most one of projectId, sectionId
\* and filter set, and none of them exactly when the input is empty or holds
\* white space only.
C13_AtMostOneField ==
    pc = "parsed" =>
        /\ Cardinality(SetFields(query)) <= 1
        /\ SetFields(query) = {} <=> Trim(source) = <<>>

C13_Witness ==
    /\ pc = "parsed"
    /\ source = <<" ", "\n", " ">>
    /\ query = NoQuery

\* the first line of a block content: what precedes the first line break of
\* the trimmed content
RECURSIVE UpToLineBreak(_)
UpToLineBreak(s) ==
    IF s = <<>> \/ Head(s) = "\n" THEN <<>>
    ELSE <<Head(s)>> \o UpToLineBreak(Tail(s))

FirstLine(src) == UpToLineBreak(Trim(src))

\* C14: the query of a block is its first line: for a content of several
\* lines the query is the one of the first line alone.
C14_FirstLineIsQuery ==
    pc = "parsed" => query = ParseTodoistQuery(FirstLine(source))

Selected(t, opts) ==
    /\ opts.projectId # None => t.project_id = opts.projectId[1]
    /\ opts.sectionId # None => t.section_id = opts.sectionId
    /\ ~opts.includeCompleted => ~t.is_completed
    /\ opts.filter # None => Satisfies(t, opts.filter[1])

\* C16: fetchTasks returns exactly the mapped items that satisfy all supplied
\* selections together (project, section, not completed unless
\* includeCompleted, date filter), each once, in ascending order.
C16_SelectionsTogether ==
    pc = "fetched" =>
        LET opts == fetchCalls[1]
        IN  /\ \A k \in 1..Len(items) :
                   LET t == SyncItemToTask(items[k])
                   IN  Occurrences(tasks, t) =
                           IF Selected(t, opts) THEN 1 ELSE 0
            /\ \A i \in 1..Len(tasks) :
                   \E k \in 1..Len(items) : tasks[i] = SyncItemToTask(items[k])
            /\ \A i, j \in 1..Len(tasks) :
                   i < j => tasks[i].order <= tasks[j].order

C16_Witness ==
    /\ pc = "fetched"
    /\ Len(items) = MaxItems
    /\ Len(tasks) = 1
    /\ fetchCalls[1].projectId # None
    /\ fetchCalls[1].sectionId # None
    /\ fetchCalls[1].filter # None
    /\ ~fetchCalls[1].includeCompleted
    /\ \E k \in 1..Len(items) :
          LET t == SyncItemToTask(items[k])
          IN  /\ t.project_id = fetchCalls[1].projectId[1]
              /\ t.section_id = fetchCalls[1].sectionId
              /\ ~t.is_completed
              /\ t.due = NoDue

Absent(x) == x.t \in {"undefined", "null"}

\* C20: a raw item whose parent_id (or section_id) is null or missing is
\* mapped to a task with that field null, never the empty string, and every
\* fetched task with a null parent_id is a root of the forest buildTaskTree
\* returns.
C20_AbsentParentIsRoot ==
    pc = "fetched" =>
        /\ \A k \in 1..Len(items) :
               LET t == SyncItemToTask(items[k])
               IN  /\ Absent(items[k].parent_id) => t.parent_id = NoId
                   /\ Absent(items[k].section_id) => t.section_id = None
        /\ \A i \in 1..Len(tasks) :
               Absent(items[tasks[i].id].parent_id) =>
                   Occurrences(roots, tasks[i].id) = 1

C20_Witness ==
    /\ pc = "fetched"
    /\ Len(items) = MaxItems
    /\ items[1].parent_id = Missing(NoId)
    /\ items[1].section_id = Missing(None)
    /\ items[2].parent_id = Val(1)
    /\ items[2].section_id = NullOf(None)
    /\ Len(tasks) = MaxItems
    /\ roots = <<1>>
    /\ nodes[1] = <<2>>

(***************************************************************************)
(* Claims about the block: responses, checkboxes, commands.                *)
(***************************************************************************)
\* the head of the message for a response status other than 200
ApiErrorHead(status) == <<"Todoist API error ", StatusText[status]>>

IsPrefix(p, s) == Len(p) <= Len(s) /\ SubSeq(s, 1, Len(p)) = p

\* C17: whenever the status of the response is not 200, fetchTasks rejects
\* with an error 'Todoist API error <status>' and yields no tasks, and render
\* shows that message in place of the task list.
C17_ErrorReplacesList ==
    [][\A i \in 1..Len(inflight), res \in FetchResponses :
          (FetchResponseOf(i, res) /\ res.status # 200) =>
              LET got == FetchTasks(res, inflight[i].opts[1], now)
              IN  /\ got.rejected
                  /\ got.tasks = <<>>
                  /\ IsPrefix(ApiErrorHead(res.status), got.message)
                  /\ container' = <<"Todoist: ">> \o got.message
                  /\ lines' = <<>>]_vars

C17_Witness ==
    /\ container = <<"Todoist: ", "Todoist API error ", "401", ": ", "{error}">>
    /\ lines = <<>>
    /\ tasks # <<>>
    /\ inflight = <<>>

\* C18: each change of the checkbox of a rendered task calls onToggle exactly
\* once, with that task's id and the new state of the checkbox; rendering
\* and the change leave the completion state of every task as it is, and
\* onToggle is called at no other time.
C18_OnTogglePerChange ==
    [][/\ \A i \in 1..Len(lines) :
              ChangeCheckboxOf(i) =>
                  (/\ lines'[i].checked = ~lines[i].checked
                   /\ toggleCalls' =
                          Append(toggleCalls,
                                 [taskId    |-> lines[i].id,
                                  completed |-> lines'[i].checked])
                   /\ tasks' = tasks)
        /\ (toggleCalls' # toggleCalls => ChangeCheckbox)]_vars

C18_Witness ==
    /\ toggleCalls = <<[taskId |-> 1, completed |-> TRUE],
                       [taskId |-> 2, completed |-> FALSE]>>
    /\ Len(lines) = 2
    /\ lines[1].checked
    /\ ~lines[2].checked
    /\ \E k \in 1..Len(tasks) : tasks[k].id = 2 /\ tasks[k].is_completed


\* the words of the error of a failed command request
CommandFailed(type) ==
    IF type = "item_complete" THEN "Todoist close task failed: "
    ELSE "Todoist reopen task failed: "

\* the notice of a resolved command
CommandDone(type) ==
    IF type = "item_complete" THEN <<"Task completed">> ELSE <<"Task reopened">>

\* C19: closeTask and reopenTask resolve on a response with status 200 whose
\* sync_status for the command is "ok" (the block then shows "Task completed"
\* or "Task reopened"), reject with "Todoist close task failed: <status>" or
\* "Todoist reopen task failed: <status>" on every other status, and reject
\* with the server's error text when the sync_status of the command is an
\* object with an error text (the block then shows "Todoist: " and the
\* rejection's message).
C19_CommandOutcome ==
    [][\A i \in 1..Len(inflight), res \in CommandResponses :
           CommandResponseOf(i, res) =>
               LET type == inflight[i].type
               IN  /\ res.status # 200 =>
                          notices' = <<"Todoist: ", CommandFailed(type),
                                       StatusText[res.status]>>
                   /\ (res.status = 200 /\ res.data # <<>>) =>
                          LET status == res.data[1].sync
                          IN  /\ status = SyncOk => notices' = CommandDone(type)
                              /\ (status.t = "object" /\ status.error # <<>>) =>
                                     notices' = <<"Todoist: ">> \o status.error]_vars

\* a command has been rejected by an error object of the server and the
\* block is fetching its tasks again
C19_Witness ==
    /\ notices = <<"Todoist: ", "Invalid item">>
    /\ \E k \in 1..Len(inflight) : inflight[k].type = "fetch"
    /\ Len(toggleCalls) >= 1


\* C21 as stated: a second run of the pipeline on the same items with the
\* same options gives the forest of the first run (same roots, same
\* children, same order at every depth), whenever it runs.
C21_SameForestTwice ==
    [][RunPipelineAgain => (roots' = roots /\ nodes' = nodes)]_vars

\* C21: a second run of the pipeline on the same items with the same
\* options, its clock on the local day of the first run, gives the forest
\* of the first run: same roots, same children, same order at every depth.
C21_SameForestSameDay ==
    [][(RunPipelineAgain /\ now \div TicksPerDay = ThisDay)
           => (roots' = roots /\ nodes' = nodes /\ tasks' = tasks)]_vars

\* the second run ran later on the same day, with the filter today, and
\* its forest has a root with a child
C21_Witness ==
    /\ pc = "again"
    /\ now = ThisDay * TicksPerDay + 1
    /\ fetchCalls[1].filter = Some(<<"today">>)
    /\ roots = <<1>>
    /\ nodes[1] = <<2>>


\* the tasks of the collection that satisfy a recognised part of parts in
\* which no & occurs
MatchesPlainPart(t, parts) ==
    \E i \in 1..Len(parts) :
        ~Includes(parts[i], "&") /\ Satisfies(t, Trim(parts[i]))

\* C22: an expression that contains both | and & is split on | only: a part
\* that contains & matches no task, so the result is the tasks that satisfy
\* a recognised part without &; "today & overdue | tomorrow" returns exactly
\* the tasks due tomorrow.
C22_MixedSplitsOnBar ==
    (pc = "filtered" /\ Includes(Expr, "|") /\ Includes(Expr, "&")) =>
        LET parts   == Split(Expr, "|")
            plain(t) == MatchesPlainPart(t, parts)
        IN  /\ filtered = SelectSeq(tasks, plain)
            /\ Expr = Join(<<"today">>, "&", Join(<<"overdue">>, "|", <<"tomorrow">>))
                   => filtered = SelectSeq(tasks, DueTomorrow)

C22_Witness ==
    /\ pc = "filtered"
    /\ filter = Join(<<"today">>, "&", Join(<<"overdue">>, "|", <<"tomorrow">>))
    /\ Len(tasks) = 2
    /\ DueToday(tasks[1])
    /\ DueTomorrow(tasks[2])
    /\ filtered = <<tasks[2]>>


\* C23: an expression with & and without | in which a part is none of
\* today, overdue, tomorrow returns no task, whatever the collection;
\* "today & !subtask" is such an expression, and parseTodoistQuery gives it
\* as the filter.
C23_UnknownPartOfAndIsEmpty ==
    /\ (/\ pc = "filtered"
        /\ Includes(Expr, "&")
        /\ ~Includes(Expr, "|")
        /\ \E i \in 1..Len(Parts(Expr, "&")) :
              Parts(Expr, "&")[i] \notin Recognised)
       => filtered = <<>>
    /\ ParseTodoistQuery(Join(<<"today">>, "&", <<"!subtask">>)).filter
           = Some(Join(<<"today">>, "&", <<"!subtask">>))

C23_Witness ==
    /\ pc = "filtered"
    /\ filter = Join(<<"today">>, "&", <<"!subtask">>)
    /\ Len(tasks) = 2
    /\ DueToday(tasks[1])
    /\ DueToday(tasks[2])
    /\ filtered = <<>>


\* the command handleToggle sends for a change of line i: closeTask for a
\* checkbox that is now checked, reopenTask for one that is now unchecked
ToggleCommand(i) ==
    [type |-> IF lines'[i].checked THEN "item_complete" ELSE "item_uncomplete",
     opts |-> <<>>, id |-> lines[i].id, call |-> 0]

\* render() has been called once more: a fetch has started
FetchStarted(pending) ==
    /\ Len(fetchCalls') = Len(fetchCalls) + 1
    /\ Len(inflight') = Len(pending) + 1
    /\ SubSeq(inflight', 1, Len(pending)) = pending
    /\ inflight'[Len(inflight')].type = "fetch"

\* C24 as stated: every toggle event sends exactly one command (closeTask
\* for completed, reopenTask otherwise), and the response to a command,
\* success or failure, starts a render of the block that fetches the tasks
\* again.
C24_CommandAndRerender ==
    [][/\ \A i \in 1..Len(lines) :
              ChangeCheckboxOf(i) => inflight' = Append(inflight, ToggleCommand(i))
       /\ \A i \in 1..Len(inflight), res \in CommandResponses :
              CommandResponseOf(i, res) => FetchStarted(Remove(inflight, i))]_vars

\* C24 amended: while the API token is set, every toggle event sends exactly
\* one command (closeTask for completed, reopenTask otherwise) and without a
\* token it sends none; the response to a command, success or failure, calls
\* render(), which fetches the tasks again while the token is set and
\* otherwise replaces the task list by the token message.
C24_CommandAndRerenderWithToken ==
    [][/\ \A i \in 1..Len(lines) :
              ChangeCheckboxOf(i) =>
                  IF Trim(settings.apiToken) # <<>>
                  THEN inflight' = Append(inflight, ToggleCommand(i))
                  ELSE inflight' = inflight /\ container' = container
       /\ \A i \in 1..Len(inflight), res \in CommandResponses :
              CommandResponseOf(i, res) =>
                  IF Trim(settings.apiToken) # <<>>
                  THEN FetchStarted(Remove(inflight, i))
                  ELSE /\ container' = TokenMessage
                       /\ lines' = <<>>
                       /\ inflight' = Remove(inflight, i)]_vars

\* a close command has failed and the block is fetching its tasks again
C24_Witness ==
    /\ notices = <<"Todoist: ", "Todoist close task failed: ", "500">>
    /\ toggleCalls = <<[taskId |-> 1, completed |-> TRUE]>>
    /\ Len(inflight) = 1
    /\ inflight[1].type = "fetch"
    /\ Len(fetchCalls) = 2


\* no fetchTasks call of the block awaits its response
AllRendersDone == \A k \in 1..Len(inflight) : inflight[k].type # "fetch"

\* C25: once every render() of the block has completed, what the block
\* shows is the outcome of the fetch of the render that started last: the
\* response to an older fetch never replaces the outcome of a newer one.
C25_LatestRenderShown ==
    (AllRendersDone /\ shown # 0) => shown = Len(fetchCalls)


\* the local day on which the call of applyFilter began
DayOfCall == cursor[1].start \div TicksPerDay

\* due on the current day or the next, whichever day of the call is taken
\* as the current one
DueTodayOrTomorrow(t) ==
    \A d \in DayOfCall..CurrentDay : DueDayOf(t) \in {<<d>>, <<d + 1>>}

\* C26: within one call of applyFilter today, overdue and tomorrow exclude
\* each other for every task, even when local midnight passes during the
\* call: "today & overdue" returns no task, and "today | tomorrow" misses no
\* task that is due on the current day or the next.
C26_OneDayPerCall ==
    pc = "filtered" =>
        /\ Expr = Join(<<"today">>, "&", <<"overdue">>) => filtered = <<>>
        /\ Expr = Join(<<"today">>, "|", <<"tomorrow">>) =>
               \A i \in 1..Len(tasks) :
                   DueTodayOrTomorrow(tasks[i]) => tasks[i] \in Range(filtered)


\* sortChildren is called on roots and on children of nodes it has been
\* called on, and on no node twice
VisitsOnlyReachableOnce ==
    \A j \in 1..Len(visits) :
        /\ \A m \in 1..(j - 1) : visits[m] # visits[j]
        /\ \/ visits[j] \in Range(roots)
           \/ \E m \in 1..(j - 1) : visits[j] \in Range(nodes[visits[m]])

\* a task that is its own ancestor by parent_id
RECURSIVE NamesAncestor(_, _, _)
NamesAncestor(id, target, fuel) ==
    /\ fuel > 0
    /\ \E k \in 1..Len(tasks) :
          /\ tasks[k].id = id
          /\ \/ tasks[k].parent_id = target
             \/ NamesAncestor(tasks[k].parent_id, target, fuel - 1)

OnCycle(id) == NamesAncestor(id, id, Len(tasks))

\* C27: buildTaskTree returns for every task collection, collections with a
\* parent_id cycle or a task that is its own parent included: sortChildren
\* is called only on nodes reachable from a root, on none of them twice,
\* and on no task of a cycle.
C27_SortTerminates ==
    /\ [](/\ VisitsOnlyReachableOnce
          /\ \A j \in 1..Len(visits) : ~OnCycle(visits[j]))
    /\ <>(pc = "built")

\* built from a collection with a task that is its own parent, a root and a
\* child of that root
C27_Witness ==
    /\ pc = "built"
    /\ Len(tasks) = 3
    /\ tasks[1].parent_id = 1
    /\ tasks[2].parent_id = 3
    /\ tasks[3].parent_id = NoId
    /\ visits = <<3, 2>>


(***************************************************************************)
(* Claims about the life cycle of the plugin and of its block.             *)
(***************************************************************************)
\* C28: at every moment at most one interval timer of the plugin is active,
\* after the plugin's onunload none is, and a tick after onunload renders
\* no block.
C28_AtMostOneTimer ==
    /\ [](/\ Cardinality(timers) <= 1
          /\ pc = "unloaded" => timers = {})
    /\ [][(pc = "unloaded" /\ Tick)
              => (fetchCalls' = fetchCalls /\ container' = container)]_vars


\* C29: once the block renderer is unloaded it is not in blockRenderers, no
\* render of it starts, and its container is not modified again, also when
\* one of its render() calls awaited its fetch at the time of the unload.
C29_UnloadedBlockUntouched ==
    /\ [](block = "unloaded" => 1 \notin blockRenderers)
    /\ [][block = "unloaded"
              => (/\ fetchCalls' = fetchCalls
                  /\ container' = container
                  /\ lines' = lines)]_vars


\* C30: a command is reported as done ("Task completed", "Task reopened")
\* only when its response has status 200 and the sync_status of the command
\* is "ok": a response without a status for the command, or with a status
\* that is neither "ok" nor an error object, is reported as a failure.
C30_DoneOnlyWhenOk ==
    [][\A i \in 1..Len(inflight), res \in CommandResponses :
           (/\ CommandResponseOf(i, res)
            /\ notices' \in {<<"Task completed">>, <<"Task reopened">>})
           => (/\ res.status = 200
               /\ res.data # <<>>
               /\ res.data[1].sync = SyncOk)]_vars

====
